---- MODULE Spec2Model ----
(***************************************************************************)
(* Model of the IMAP proxy server (src/unnamed/part_000, lines 1-702):     *)
(* the request handlers /test, /mailbox-stats, /search-stream, /search,    *)
(* /attachment and /message, the mail session each of them opens and       *)
(* releases, and the helpers extractPdfAttachments and findPdfParts.       *)
(*                                                                         *)
(* One behaviour is the handling of one request.  The request and the      *)
(* mail server's content are chosen in Init; every call to the mail        *)
(* collaborator (connect, status, mailboxOpen, search, fetch, fetchOne,    *)
(* download, logout) either succeeds or throws.                            *)
(***************************************************************************)
EXTENDS Integers, Sequences, FiniteSets, TLC

\* JavaScript null (a request field that is absent, client before connect).
Null == -1

\* JavaScript truthiness of a number-or-null: null and 0 are falsy.
Truthy(x) == x # Null /\ x # 0

(***************************************************************************)
(* Program constants                                                       *)
(***************************************************************************)
PROGRESS_INTERVAL == 50
PDF_BATCH_SIZE == 10
FETCH_BATCH_SIZE == 100
MAX_RETRIES == 3
DefaultMaxResults == 5000
DefaultDaysBack == 365
MaxDaysBack == 3650

(***************************************************************************)
(* Bounds of the model                                                     *)
(***************************************************************************)
\* The largest mailbox: UIDs 1..MaxUid.
MaxUid == 120
\* A resume point inside the mailbox.
ResumeUid == 71
\* An incremental scan's lower bound (sinceUid); MaxUid - SinceUid new messages.
SinceUid == 110
\* Counts carried over from a previous partial scan.
PrevScanned == 40
PrevWithPdf == 3
\* A small result cap.
SmallCap == 5
MaxChildren == 2
DaysBoxSize == 8
DayStep == 600
DaysSinceUid == 3

BoxSizes == {0, MaxUid}
\* Every PdfStride-th message of the mailbox carries a PDF.
PdfStrides == {5, 20}
MaxResultsValues == {0, SmallCap, DefaultMaxResults}
ResumeValues == {Null, 0, ResumeUid}
SinceValues == {Null, SinceUid}
PreviousValues == {<<0, 0>>, <<PrevScanned, PrevWithPdf>>}
FetchOrders == {"desc", "asc"}

(***************************************************************************)
(* Sequences                                                               *)
(***************************************************************************)
Reverse(s) == [j \in 1..Len(s) |-> s[Len(s) - j + 1]]

\* Array.prototype.slice(from, to) with 0-based indices, to exclusive.
Slice(s, from, to) ==
    LET hi == IF to > Len(s) THEN Len(s) ELSE to
    IN  IF from >= hi THEN <<>> ELSE SubSeq(s, from + 1, hi)

Last(s) == s[Len(s)]

\* The number of elements of s that a comparator (a, b) => b - a puts before x.
RankDescending(s, x) == Cardinality({k \in 1..Len(s) : s[k] > x})

\* Mutant of SortDescending: the array is left in the order the search gave.
SortDescending_Unsorted(s) == s

\* allUids.sort((a, b) => b - a), for the distinct UIDs a search returns: the
\* element at index j is the one that j - 1 elements precede.
SortDescending(s) ==
    LET rank == [k \in 1..Len(s) |-> RankDescending(s, s[k])]
    IN  [j \in 1..Len(s) |-> s[CHOOSE k \in 1..Len(s) : rank[k] = j - 1]]

(***************************************************************************)
(* MIME structure trees and the PDF walkers                                *)
(***************************************************************************)
\* A file name is a sequence of characters; <<>> is the empty string.
Str_inv_pdf == <<"i", "n", "v", ".", "p", "d", "f">>
Str_INV_PDF == <<"I", "N", "V", ".", "P", "D", "F">>
Str_note_txt == <<"n", ".", "t", "x", "t">>
Str_pdf == <<"p", "d", "f">>

LowerChar(c) ==
    CASE c = "I" -> "i" [] c = "N" -> "n" [] c = "V" -> "v"
      [] c = "P" -> "p" [] c = "D" -> "d" [] c = "F" -> "f"
      [] OTHER -> c

\* String.prototype.toLowerCase on a character sequence.
ToLowerCase(s) == [j \in 1..Len(s) |-> LowerChar(s[j])]

\* String.prototype.endsWith
EndsWith(s, suffix) ==
    /\ Len(s) >= Len(suffix)
    /\ SubSeq(s, Len(s) - Len(suffix) + 1, Len(s)) = suffix

\* type and subtype are lower-cased by the walkers; the model keeps them in
\* one of two spellings.
LowerWord(w) ==
    CASE w = "APPLICATION" -> "application" [] w = "PDF" -> "pdf"
      [] w = "MULTIPART" -> "multipart" [] w = "MIXED" -> "mixed"
      [] OTHER -> w

Leaf(type, subtype, filename, name) ==
    [type |-> type, subtype |-> subtype, filename |-> filename, name |-> name,
     childNodes |-> <<>>]

Multi(subtype, name, children) ==
    [type |-> "multipart", subtype |-> subtype, filename |-> <<>>, name |-> name,
     childNodes |-> children]

TextLeaf == Leaf("text", "plain", <<>>, <<>>)
PdfLeaf == Leaf("application", "pdf", Str_inv_pdf, <<>>)
PdfLeafUpper == Leaf("APPLICATION", "PDF", <<>>, <<>>)
NamedPdfLeaf == Leaf("application", "octet-stream", <<>>, Str_INV_PDF)
OtherLeaf == Leaf("image", "png", Str_note_txt, Str_pdf)
\* A disposition filename that is no PDF name in front of a name parameter that is.
ShadowedLeaf == Leaf("image", "png", Str_note_txt, Str_inv_pdf)

\* multipart/mixed[ text/plain, application/pdf(filename="inv.pdf") ]
TreePlain == TextLeaf
TreeInvoice == Multi("mixed", <<>>, <<TextLeaf, PdfLeaf>>)
TreeNested ==
    Multi("mixed", <<>>,
          <<TextLeaf, Multi("alternative", <<>>, <<NamedPdfLeaf, OtherLeaf>>), PdfLeafUpper>>)
TreeRootPdf == PdfLeaf
TreeNoPdf == Multi("mixed", <<>>, <<TextLeaf, OtherLeaf>>)

\* part.dispositionParameters?.filename || part.parameters?.name || ''
ResolvedFilename(part) == IF part.filename # <<>> THEN part.filename ELSE part.name

\* `${part.type || ''}/${part.subtype || ''}`.toLowerCase(), kept as a pair.
MimeType(part) == <<LowerWord(part.type), LowerWord(part.subtype)>>

\* Mutant of IsPdfPart: type, subtype and file name are compared as spelled.
IsPdfPart_CaseSensitive(part) ==
    \/ <<part.type, part.subtype>> = <<"application", "pdf">>
    \/ EndsWith(ResolvedFilename(part), <<".", "p", "d", "f">>)

\* mimeType === 'application/pdf' || filename.toLowerCase().endsWith('.pdf')
IsPdfPart(part) ==
    \/ MimeType(part) = <<"application", "pdf">>
    \/ EndsWith(ToLowerCase(ResolvedFilename(part)), <<".", "p", "d", "f">>)

\* A part path is the sequence of its dotted indices; <<>> is ''.
\* path || '1'
PathOrOne(path) == IF path = <<>> THEN <<1>> ELSE path

\* path ? `${path}.${index + 1}` : `${index + 1}`, index + 1 = j
ChildPath(path, j) == Append(path, j)

RECURSIVE WalkChildren(_, _, _)
RECURSIVE Walk(_, _)
\* extractPdfAttachments.walk: the descriptors of part and its descendants,
\* in the order the pushes happen.
Walk(part, path) ==
    LET own == IF IsPdfPart(part)
               THEN <<[filename |-> IF ResolvedFilename(part) # <<>>
                                    THEN ResolvedFilename(part)
                                    ELSE <<"d", "o", "c", "u", "m", "e", "n", "t", ".", "p", "d", "f">>,
                       mimeType |-> MimeType(part),
                       partId |-> PathOrOne(path)]>>
               ELSE <<>>
    IN  own \o WalkChildren(part.childNodes, path, 1)

WalkChildren(children, path, j) ==
    IF j > Len(children) THEN <<>>
    ELSE Walk(children[j], ChildPath(path, j)) \o WalkChildren(children, path, j + 1)

\* A missing structure is the empty tuple.
NoStructure == <<>>

extractPdfAttachments(bodyStructure) ==
    IF bodyStructure = NoStructure THEN <<>> ELSE Walk(bodyStructure, <<>>)

RECURSIVE FindChildren(_, _, _)
RECURSIVE FindWalk(_, _)
\* findPdfParts of the /attachment fallback: the pushed paths of part and its
\* descendants, in the order the pushes happen.
FindWalk(part, path) ==
    LET own == IF IsPdfPart(part) THEN <<PathOrOne(path)>> ELSE <<>>
    IN  own \o FindChildren(part.childNodes, path, 1)

FindChildren(children, path, j) ==
    IF j > Len(children) THEN <<>>
    ELSE FindWalk(children[j], ChildPath(path, j)) \o FindChildren(children, path, j + 1)

\* Mutant of findPdfParts: the walk starts with the root numbered '1'.
findPdfParts_RootPath(bodyStructure) == FindWalk(bodyStructure, <<1>>)

findPdfParts(bodyStructure) == FindWalk(bodyStructure, <<>>)

(***************************************************************************)
(* State                                                                   *)
(***************************************************************************)
VARIABLES
    op,                 \* the handler that serves the request
    req,                \* the request body
    box,                \* the mail server: mailbox size, PDF stride, fetch order
    pc,                 \* the handler's position
    client,             \* `client`: Null, or the index of its session in sessions
    sessions,           \* per session opened: the number of logout() calls on it
    events,             \* the Server-Sent Events written so far (sendEvent)
    resEnded,           \* res.end() was called
    responses,          \* the JSON responses sent (res.json / res.status().json)
    err,                \* the error caught by the handler's catch block
    allUids,            \* the sorted candidate UIDs
    i,                  \* the batch loop's index
    batch,              \* messages the running fetch has still to yield
    messages,           \* `messages`: the result messages (by UID)
    pendingMessages,    \* `pendingMessages`
    totalEmailsScanned,
    totalWithPdf,
    lastProcessedUid,
    skippedToResume,
    scannedUids,        \* history: the UIDs counted as scanned, in order
    attempt,            \* /attachment: the retry loop's counter
    lastError,          \* /attachment: `lastError`
    waits,              \* /attachment: the backoff delays waited, in ms
    downloadResult,     \* /attachment: `downloadResult` and the bytes of its stream
    pdfParts,           \* /attachment: the fallback's candidate paths
    cand,               \* /attachment: index of the next candidate to try
    tried,              \* /attachment: the paths downloaded in this attempt, in order
    calls,              \* history: the collaborator calls made, and whether each succeeded
    logs,               \* /attachment: the console.error lines written
    prior,              \* the outcome of the request served before this one, if any
    connected           \* the caller's connection to the server is open

scanVars == <<allUids, i, batch, messages, pendingMessages, totalEmailsScanned,
              totalWithPdf, lastProcessedUid, skippedToResume, scannedUids>>
ioVars == <<events, resEnded, responses>>
attVars == <<attempt, lastError, waits, downloadResult, pdfParts, cand, tried>>
vars == <<op, req, box, pc, client, sessions, err, ioVars, scanVars, attVars, calls, logs, prior, connected>>

(***************************************************************************)
(* The mail server                                                         *)
(***************************************************************************)
\* The messages of the mailbox are UIDs 1..box.size; every box.stride-th one
\* carries a PDF, in one of three structures.
HasPdfStructure(uid) == uid % box.stride = 0

BodyStructure(uid) ==
    IF ~HasPdfStructure(uid) THEN (IF uid % 2 = 0 THEN TreePlain ELSE TreeNoPdf)
    ELSE CASE (uid \div box.stride) % 3 = 0 -> TreeInvoice
           [] (uid \div box.stride) % 3 = 1 -> TreeNested
           [] OTHER -> TreeRootPdf

\* The age in days of a message: the newest message is of today, each older
\* one is box.dayStep days older than the next.
Age(uid) == (box.size - uid) * box.dayStep

\* What client.search resolves to when the server gives no UID list (false);
\* 0 is no UID.
NotAnArray == <<0>>

\* Mutant of EffectiveDaysBack: large values are not clamped.
EffectiveDaysBack_NoClamp(daysBack) == IF daysBack # 0 THEN daysBack ELSE DefaultDaysBack

\* daysBack >= 3650 ? 3650 : (daysBack || 365), for a number daysBack
EffectiveDaysBack(daysBack) ==
    IF daysBack >= MaxDaysBack THEN MaxDaysBack
    ELSE IF daysBack # 0 THEN daysBack ELSE DefaultDaysBack

\* {since: sinceDate}, sinceDate being today minus effectiveDaysBack days.
SinceCriteria(daysBack) == [kind |-> "since", value |-> EffectiveDaysBack(daysBack)]

\* Mutant of SearchCriteria: the date bound is kept in an incremental scan.
SearchCriteria_AlwaysDate(sinceUid, daysBack) == SinceCriteria(daysBack)

\* if (sinceUid) searchCriteria = {uid: `${sinceUid + 1}:*`}
\* else searchCriteria = {since: sinceDate}
SearchCriteria(sinceUid, daysBack) ==
    IF Truthy(sinceUid)
    THEN [kind |-> "uid", value |-> sinceUid + 1]
    ELSE SinceCriteria(daysBack)

\* client.search(criteria, {uid: true}): the UIDs in mailbox order.
\* {uid: 'n:*'} selects UID >= n; {since: sinceDate} selects the messages
\* received on sinceDate or later.
SearchResult(criteria) ==
    IF box.searchArray
    THEN SelectSeq([u \in 1..box.size |-> u],
                   LAMBDA u : IF criteria.kind = "uid" THEN u >= criteria.value
                              ELSE Age(u) <= criteria.value)
    ELSE NotAnArray

\* Array.isArray(searchResult) ? searchResult : []
ArrayOrEmpty(searchResult) == IF searchResult = NotAnArray THEN <<>> ELSE searchResult

\* client.fetch(batchUids, ...): the order in which the messages are yielded.
FetchYield(batchUids) == IF box.order = "desc" THEN batchUids ELSE Reverse(batchUids)

(***************************************************************************)
(* Sessions, events, responses                                             *)
(***************************************************************************)
\* A collaborator call (createClient, status, mailboxOpen, search, fetch,
\* fetchOne, download, logout) returned (ok) or threw.
Call(name, ok) == calls' = Append(calls, [name |-> name, ok |-> ok, arg |-> <<>>])

\* The same for a call whose argument is kept: the criteria of a search, the
\* UIDs of a fetch.
CallWith(name, ok, arg) == calls' = Append(calls, [name |-> name, ok |-> ok, arg |-> arg])

\* createClient succeeded: `client` is the new session.
OpenSession ==
    /\ sessions' = Append(sessions, 0)
    /\ client' = Len(sessions) + 1
    /\ Call("connect", TRUE)

\* client.logout() is invoked on the handler's session.
LogoutCalled == sessions' = [sessions EXCEPT ![client] = @ + 1]

Event(type) ==
    [type |-> type, scanned |-> Null, withPdf |-> Null, lastUid |-> Null,
     total |-> Null, percentComplete |-> Null, messages |-> <<>>,
     error |-> "", resuming |-> FALSE, incremental |-> FALSE]

\* `preview`: the payload bytes quoted in the text of `error`.
Response(status) ==
    [status |-> status, error |-> "", preview |-> <<>>, messages |-> <<>>,
     totalEmailsScanned |-> Null, totalWithPdf |-> Null, content |-> <<>>]

respond(r) == responses' = Append(responses, r)

\* A thrown Error: its message, and the payload bytes quoted in the message.
Error(message) == [message |-> message, preview |-> <<>>]
NoError == Error("")

\* No request was served before this one.
NoPrior == [op |-> "none", messages |-> <<>>, totalEmailsScanned |-> Null,
            totalWithPdf |-> Null, scannedUids |-> <<>>]

\* Math.round(x / y * 100) for x >= 0, y > 0
RoundPercent(x, y) == (200 * x + y) \div (2 * y)

Min(a, b) == IF a < b THEN a ELSE b

(***************************************************************************)
(* /search-stream                                                          *)
(***************************************************************************)
\* Mutant of SkipToResume: the message below the resume point is skipped too.
SkipToResume_OneMore(resumeAfterUid, uid) ==
    Truthy(resumeAfterUid) /\ uid >= resumeAfterUid - 1

\* Mutant of SkipToResume: the message at the resume point is not skipped.
SkipToResume_OffByOne(resumeAfterUid, uid) == Truthy(resumeAfterUid) /\ uid > resumeAfterUid

\* resumeAfterUid && msg.uid >= resumeAfterUid
SkipToResume(resumeAfterUid, uid) == Truthy(resumeAfterUid) /\ uid >= resumeAfterUid

\* Mutant of UnderCap: one message more than the cap is let through.
UnderCap_OffByOne(count, maxResults) == count <= maxResults

\* messages.length < maxResults
UnderCap(count, maxResults) == count < maxResults

\* Mutant of ProgressDue: the interval is counted on the cumulative total.
ProgressDue_Cumulative(scanned, previousScanned) == scanned % PROGRESS_INTERVAL = 0

\* (totalEmailsScanned - previousScanned) % PROGRESS_INTERVAL === 0
ProgressDue(scanned, previousScanned) ==
    (scanned - previousScanned) % PROGRESS_INTERVAL = 0

\* Mutant of BatchFull: the batch is sent one message late.
BatchFull_Late(pending) == Len(pending) > PDF_BATCH_SIZE

\* pendingMessages.length >= PDF_BATCH_SIZE
BatchFull(pending) == Len(pending) >= PDF_BATCH_SIZE

\* Mutant of InitialCounters: the previous counts are dropped.
InitialCounters_Zero(previousScanned, previousWithPdf) == [scanned |-> 0, withPdf |-> 0]

\* let totalEmailsScanned = previousScanned; let totalWithPdf = previousWithPdf
InitialCounters(previousScanned, previousWithPdf) ==
    [scanned |-> previousScanned, withPdf |-> previousWithPdf]

\* Mutant of InitialLastUid: the cursor starts at null.
InitialLastUid_Null(resumeAfterUid) == Null

\* let lastProcessedUid = resumeAfterUid
InitialLastUid(resumeAfterUid) == resumeAfterUid

sendEvent(e) == events' = Append(events, e)

\* !email || !password: 400 before anything else happens.
StreamReject ==
    /\ op = "stream" /\ pc = "start" /\ ~req.valid
    /\ responses' = Append(responses, [Response(400) EXCEPT !.error = "Email and password required"])
    /\ pc' = "done"
    /\ UNCHANGED <<op, req, box, prior, connected, calls, logs, client, sessions, err, events, resEnded, scanVars, attVars>>

\* client = await createClient(email, password)
StreamConnect ==
    /\ op = "stream" /\ pc = "start" /\ req.valid
    /\ \/ /\ OpenSession
          /\ pc' = "status"
          /\ UNCHANGED err
       \/ /\ err' = Error("connect failed") /\ Call("connect", FALSE)
          /\ pc' = "catch"
          /\ UNCHANGED <<client, sessions>>
    /\ UNCHANGED <<op, req, box, prior, connected, logs, ioVars, scanVars, attVars>>

\* const status = await client.status('INBOX', ...); sendEvent({type: 'start', ...})
StreamStatus ==
    /\ op = "stream" /\ pc = "status"
    /\ \/ /\ sendEvent([Event("start") EXCEPT
                            !.total = box.size,
                            !.resuming = Truthy(req.resumeAfterUid),
                            !.incremental = Truthy(req.sinceUid),
                            !.scanned = req.previousScanned,
                            !.withPdf = req.previousWithPdf])
          /\ pc' = "open"
          /\ UNCHANGED err /\ Call("status", TRUE)
       \/ /\ err' = Error("status failed") /\ Call("status", FALSE)
          /\ pc' = "catch"
          /\ UNCHANGED events
    /\ UNCHANGED <<op, req, box, prior, connected, logs, client, sessions, resEnded, responses, scanVars, attVars>>

\* await client.mailboxOpen('INBOX'); the counters are initialised.
StreamMailboxOpen ==
    /\ op = "stream" /\ pc = "open"
    /\ \/ /\ messages' = <<>>
          /\ pendingMessages' = <<>>
          /\ totalEmailsScanned' = InitialCounters(req.previousScanned, req.previousWithPdf).scanned
          /\ totalWithPdf' = InitialCounters(req.previousScanned, req.previousWithPdf).withPdf
          /\ lastProcessedUid' = InitialLastUid(req.resumeAfterUid)
          /\ skippedToResume' = 0
          /\ pc' = "search"
          /\ UNCHANGED err /\ Call("mailboxOpen", TRUE)
       \/ /\ err' = Error("mailboxOpen failed") /\ Call("mailboxOpen", FALSE)
          /\ pc' = "catch"
          /\ UNCHANGED <<messages, pendingMessages, totalEmailsScanned, totalWithPdf,
                         lastProcessedUid, skippedToResume>>
    /\ UNCHANGED <<op, req, box, prior, connected, logs, client, sessions, ioVars, allUids, i, batch, scannedUids,
                   attVars>>

\* const searchResult = await client.search(searchCriteria, {uid: true});
\* allUids.sort((a, b) => b - a); the batch loop starts at i = 0.
StreamSearch ==
    /\ op = "stream" /\ pc = "search"
    /\ \/ /\ allUids' = SortDescending(ArrayOrEmpty(SearchResult(SearchCriteria(req.sinceUid, req.daysBack))))
          /\ i' = 0
          /\ pc' = "loop"
          /\ UNCHANGED err
          /\ CallWith("search", TRUE, SearchCriteria(req.sinceUid, req.daysBack))
       \/ /\ err' = Error("search failed")
          /\ CallWith("search", FALSE, SearchCriteria(req.sinceUid, req.daysBack))
          /\ pc' = "catch"
          /\ UNCHANGED <<allUids, i>>
    /\ UNCHANGED <<op, req, box, prior, connected, logs, client, sessions, ioVars, batch, messages, pendingMessages,
                   totalEmailsScanned, totalWithPdf, lastProcessedUid, skippedToResume, scannedUids, attVars>>

\* Mutant of StreamFetch: a failed fetch is issued again.
StreamFetch_Retry ==
    /\ op = "stream" /\ pc = "loop" /\ i < Len(allUids)
    /\ \/ /\ batch' = FetchYield(Slice(allUids, i, i + FETCH_BATCH_SIZE))
          /\ pc' = "iter"
          /\ CallWith("fetch", TRUE, Slice(allUids, i, i + FETCH_BATCH_SIZE))
       \/ /\ Len(calls) < MaxUid
          /\ CallWith("fetch", FALSE, Slice(allUids, i, i + FETCH_BATCH_SIZE))
          /\ UNCHANGED <<batch, pc>>
    /\ UNCHANGED <<op, req, box, prior, connected, logs, client, sessions, err, ioVars, allUids, i,
                   messages, pendingMessages, totalEmailsScanned, totalWithPdf,
                   lastProcessedUid, skippedToResume, scannedUids, attVars>>

\* The batch loop's head with i < allUids.length: client.fetch(batchUids, ...)
StreamFetch ==
    /\ op = "stream" /\ pc = "loop" /\ i < Len(allUids)
    /\ \/ /\ batch' = FetchYield(Slice(allUids, i, i + FETCH_BATCH_SIZE))
          /\ pc' = "iter"
          /\ UNCHANGED err /\ CallWith("fetch", TRUE, Slice(allUids, i, i + FETCH_BATCH_SIZE))
       \/ /\ err' = Error("fetch failed") /\ CallWith("fetch", FALSE, Slice(allUids, i, i + FETCH_BATCH_SIZE))
          /\ pc' = "catch"
          /\ UNCHANGED batch
    /\ UNCHANGED <<op, req, box, prior, connected, logs, client, sessions, ioVars, allUids, i, messages,
                   pendingMessages, totalEmailsScanned, totalWithPdf, lastProcessedUid,
                   skippedToResume, scannedUids, attVars>>

\* The fetch iterator throws while the batch is being read.
StreamFetchBreaks ==
    /\ op = "stream" /\ pc = "iter"
    /\ err' = Error("fetch failed")
    /\ calls' = [calls EXCEPT ![Len(calls)].ok = FALSE]
    /\ pc' = "catch"
    /\ UNCHANGED <<op, req, box, prior, connected, logs, client, sessions, ioVars, scanVars, attVars>>

\* The position after the message just read: the next message of the batch, or
\* the batch loop's head with i += FETCH_BATCH_SIZE.
AfterMessage(pcIter) ==
    /\ batch' = Tail(batch)
    /\ IF Tail(batch) = <<>>
       THEN i' = i + FETCH_BATCH_SIZE /\ pc' = "loop"
       ELSE i' = i /\ pc' = pcIter

\* One turn of the for await loop (lines 194-248).
StreamMessage ==
    /\ op = "stream" /\ pc = "iter" /\ batch # <<>>
    /\ LET uid == Head(batch)
           hasPdf == Len(extractPdfAttachments(BodyStructure(uid))) > 0
           kept == hasPdf /\ UnderCap(Len(messages), req.maxResults)
           pushed == IF kept THEN Append(pendingMessages, uid) ELSE pendingMessages
           full == kept /\ BatchFull(pushed)
           scanned == totalEmailsScanned + 1
           withPdf == IF hasPdf THEN totalWithPdf + 1 ELSE totalWithPdf
           batchEvent == [Event("pdf_batch") EXCEPT !.messages = pushed, !.withPdf = withPdf]
           progressEvent == [Event("progress") EXCEPT
                                !.scanned = scanned,
                                !.total = Len(allUids),
                                !.withPdf = withPdf,
                                !.percentComplete = Min(99, RoundPercent(scanned, Len(allUids))),
                                !.lastUid = uid]
       IN  IF SkipToResume(req.resumeAfterUid, uid)
           THEN /\ skippedToResume' = skippedToResume + 1
                /\ UNCHANGED <<messages, pendingMessages, totalEmailsScanned, totalWithPdf,
                               lastProcessedUid, events, scannedUids>>
           ELSE /\ totalEmailsScanned' = scanned
                /\ lastProcessedUid' = uid
                /\ totalWithPdf' = withPdf
                /\ messages' = IF kept THEN Append(messages, uid) ELSE messages
                /\ pendingMessages' = IF full THEN <<>> ELSE pushed
                /\ events' = events \o (IF full THEN <<batchEvent>> ELSE <<>>)
                                    \o (IF ProgressDue(scanned, req.previousScanned)
                                        THEN <<progressEvent>> ELSE <<>>)
                /\ scannedUids' = Append(scannedUids, uid)
                /\ UNCHANGED skippedToResume
    /\ AfterMessage("iter")
    /\ UNCHANGED <<op, req, box, prior, connected, calls, logs, client, sessions, err, resEnded, responses, allUids, attVars>>

\* Mutant of StreamFlush: the remaining pending messages are not sent.
StreamFlush_Dropped ==
    /\ op = "stream" /\ pc = "loop" /\ i >= Len(allUids)
    /\ pc' = "logout"
    /\ UNCHANGED <<op, req, box, prior, connected, calls, logs, client, sessions, err, events, resEnded,
                   responses, scanVars, attVars>>

\* The batch loop ends: the remaining pending messages are sent (lines 252-259).
\* Mutant of StreamFlush: the last pdf_batch is written even when nothing is
\* pending.
StreamFlush_Always ==
    /\ op = "stream" /\ pc = "loop" /\ i >= Len(allUids)
    /\ sendEvent([Event("pdf_batch") EXCEPT !.messages = pendingMessages,
                                           !.withPdf = totalWithPdf])
    /\ pc' = "logout"
    /\ UNCHANGED <<op, req, box, prior, connected, calls, logs, client, sessions, err, resEnded, responses, scanVars, attVars>>

StreamFlush ==
    /\ op = "stream" /\ pc = "loop" /\ i >= Len(allUids)
    /\ IF Len(pendingMessages) > 0
       THEN sendEvent([Event("pdf_batch") EXCEPT !.messages = pendingMessages,
                                                  !.withPdf = totalWithPdf])
       ELSE UNCHANGED events
    /\ pc' = "logout"
    /\ UNCHANGED <<op, req, box, prior, connected, calls, logs, client, sessions, err, resEnded, responses, scanVars, attVars>>

\* Mutant of StreamLogout: the Complete event is written before logout is awaited.
StreamLogout_CompleteFirst ==
    /\ op = "stream" /\ pc = "logout"
    /\ LogoutCalled
    /\ sendEvent([Event("complete") EXCEPT
                      !.scanned = totalEmailsScanned,
                      !.withPdf = totalWithPdf,
                      !.lastUid = lastProcessedUid])
    /\ \/ /\ resEnded' = TRUE
          /\ pc' = "finally"
          /\ UNCHANGED err /\ Call("logout", TRUE)
       \/ /\ err' = Error("logout failed") /\ Call("logout", FALSE)
          /\ pc' = "catch"
          /\ UNCHANGED resEnded
    /\ UNCHANGED <<op, req, box, prior, connected, logs, client, responses, scanVars, attVars>>

\* await client.logout(); sendEvent({type: 'complete', ...}); res.end()
StreamLogout ==
    /\ op = "stream" /\ pc = "logout"
    /\ LogoutCalled
    /\ \/ /\ sendEvent([Event("complete") EXCEPT
                            !.scanned = totalEmailsScanned,
                            !.withPdf = totalWithPdf,
                            !.lastUid = lastProcessedUid])
          /\ resEnded' = TRUE
          /\ pc' = "finally"
          /\ UNCHANGED err /\ Call("logout", TRUE)
       \/ /\ err' = Error("logout failed") /\ Call("logout", FALSE)
          /\ pc' = "catch"
          /\ UNCHANGED <<events, resEnded>>
    /\ UNCHANGED <<op, req, box, prior, connected, logs, client, responses, scanVars, attVars>>

\* catch (err) { sendEvent({type: 'error', ...}); res.end(); }
StreamCatch ==
    /\ op = "stream" /\ pc = "catch"
    /\ sendEvent([Event("error") EXCEPT !.error = err.message])
    /\ resEnded' = TRUE
    /\ pc' = "finally"
    /\ UNCHANGED <<op, req, box, prior, connected, calls, logs, client, sessions, err, responses, scanVars, attVars>>

\* Mutant of FinallyLogout: the handler has no finally block.
FinallyLogout_Missing ==
    /\ UNCHANGED <<sessions, calls>>
    /\ pc' = "done"

\* finally { if (client) try { await client.logout(); } catch {} }
\* Shared by every handler that ends in this finally block.
FinallyLogout ==
    /\ IF client # Null
       THEN LogoutCalled /\ Call("logout", TRUE)
       ELSE UNCHANGED <<sessions, calls>>
    /\ pc' = "done"

StreamFinally ==
    /\ op = "stream" /\ pc = "finally"
    /\ FinallyLogout
    /\ UNCHANGED <<op, req, box, prior, connected, logs, client, err, ioVars, scanVars, attVars>>

NextStream ==
    \/ StreamReject \/ StreamConnect \/ StreamStatus \/ StreamMailboxOpen
    \/ StreamSearch \/ StreamFetch \/ StreamFetchBreaks \/ StreamMessage
    \/ StreamFlush \/ StreamLogout \/ StreamCatch \/ StreamFinally

(***************************************************************************)
(* /search (non-streaming)                                                 *)
(***************************************************************************)
SearchReject ==
    /\ op = "search" /\ pc = "start" /\ ~req.valid
    /\ respond([Response(400) EXCEPT !.error = "Email and password required"])
    /\ pc' = "done"
    /\ UNCHANGED <<op, req, box, prior, connected, calls, logs, client, sessions, err, events, resEnded, scanVars, attVars>>

SearchConnect ==
    /\ op = "search" /\ pc = "start" /\ req.valid
    /\ \/ /\ OpenSession
          /\ pc' = "open"
          /\ UNCHANGED err
       \/ /\ err' = Error("connect failed") /\ Call("connect", FALSE)
          /\ pc' = "catch"
          /\ UNCHANGED <<client, sessions>>
    /\ UNCHANGED <<op, req, box, prior, connected, logs, ioVars, scanVars, attVars>>

SearchMailboxOpen ==
    /\ op = "search" /\ pc = "open"
    /\ \/ pc' = "search" /\ UNCHANGED err /\ Call("mailboxOpen", TRUE)
       \/ err' = Error("mailboxOpen failed") /\ Call("mailboxOpen", FALSE) /\ pc' = "catch"
    /\ UNCHANGED <<op, req, box, prior, connected, logs, client, sessions, ioVars, scanVars, attVars>>

\* Mutant of SearchSearch: the result list and the counters outlive the request.
SearchSearch_Stale ==
    /\ op = "search" /\ pc = "search"
    /\ \/ /\ allUids' = SortDescending(ArrayOrEmpty(SearchResult(SinceCriteria(req.daysBack))))
          /\ i' = 0
          /\ pc' = "loop"
          /\ UNCHANGED err
          /\ CallWith("search", TRUE, SinceCriteria(req.daysBack))
       \/ /\ err' = Error("search failed")
          /\ CallWith("search", FALSE, SinceCriteria(req.daysBack))
          /\ pc' = "catch"
          /\ UNCHANGED <<allUids, i>>
    /\ UNCHANGED <<op, req, box, prior, connected, logs, client, sessions, ioVars, batch, messages,
                   totalEmailsScanned, totalWithPdf, pendingMessages,
                   lastProcessedUid, skippedToResume, scannedUids, attVars>>

\* client.search({since: sinceDate}, {uid: true}); sort; the counters start at 0.
SearchSearch ==
    /\ op = "search" /\ pc = "search"
    /\ \/ /\ allUids' = SortDescending(ArrayOrEmpty(SearchResult(SinceCriteria(req.daysBack))))
          /\ messages' = <<>>
          /\ totalEmailsScanned' = 0
          /\ totalWithPdf' = 0
          /\ i' = 0
          /\ pc' = "loop"
          /\ UNCHANGED err
          /\ CallWith("search", TRUE, SinceCriteria(req.daysBack))
       \/ /\ err' = Error("search failed")
          /\ CallWith("search", FALSE, SinceCriteria(req.daysBack))
          /\ pc' = "catch"
          /\ UNCHANGED <<allUids, messages, totalEmailsScanned, totalWithPdf, i>>
    /\ UNCHANGED <<op, req, box, prior, connected, logs, client, sessions, ioVars, batch, pendingMessages,
                   lastProcessedUid, skippedToResume, scannedUids, attVars>>

SearchFetch ==
    /\ op = "search" /\ pc = "loop" /\ i < Len(allUids)
    /\ \/ /\ batch' = FetchYield(Slice(allUids, i, i + FETCH_BATCH_SIZE))
          /\ pc' = "iter"
          /\ UNCHANGED err /\ CallWith("fetch", TRUE, Slice(allUids, i, i + FETCH_BATCH_SIZE))
       \/ /\ err' = Error("fetch failed") /\ CallWith("fetch", FALSE, Slice(allUids, i, i + FETCH_BATCH_SIZE))
          /\ pc' = "catch"
          /\ UNCHANGED batch
    /\ UNCHANGED <<op, req, box, prior, connected, logs, client, sessions, ioVars, allUids, i, messages,
                   pendingMessages, totalEmailsScanned, totalWithPdf, lastProcessedUid,
                   skippedToResume, scannedUids, attVars>>

SearchFetchBreaks ==
    /\ op = "search" /\ pc = "iter"
    /\ err' = Error("fetch failed")
    /\ calls' = [calls EXCEPT ![Len(calls)].ok = FALSE]
    /\ pc' = "catch"
    /\ UNCHANGED <<op, req, box, prior, connected, logs, client, sessions, ioVars, scanVars, attVars>>

\* One turn of the for await loop (lines 324-338).
SearchMessage ==
    /\ op = "search" /\ pc = "iter" /\ batch # <<>>
    /\ LET uid == Head(batch)
           hasPdf == Len(extractPdfAttachments(BodyStructure(uid))) > 0
       IN  /\ totalEmailsScanned' = totalEmailsScanned + 1
           /\ totalWithPdf' = IF hasPdf THEN totalWithPdf + 1 ELSE totalWithPdf
           /\ messages' = IF hasPdf /\ UnderCap(Len(messages), req.maxResults)
                          THEN Append(messages, uid) ELSE messages
           /\ scannedUids' = Append(scannedUids, uid)
    /\ AfterMessage("iter")
    /\ UNCHANGED <<op, req, box, prior, connected, calls, logs, client, sessions, err, ioVars, allUids, pendingMessages,
                   lastProcessedUid, skippedToResume, attVars>>

\* await client.logout(); res.json({messages, totalEmailsScanned, totalWithPdf, ...})
SearchLogout ==
    /\ op = "search" /\ pc = "loop" /\ i >= Len(allUids)
    /\ LogoutCalled
    /\ \/ /\ respond([Response(200) EXCEPT !.messages = messages,
                                           !.totalEmailsScanned = totalEmailsScanned,
                                           !.totalWithPdf = totalWithPdf])
          /\ pc' = "finally"
          /\ UNCHANGED err /\ Call("logout", TRUE)
       \/ /\ err' = Error("logout failed") /\ Call("logout", FALSE)
          /\ pc' = "catch"
          /\ UNCHANGED responses
    /\ UNCHANGED <<op, req, box, prior, connected, logs, client, events, resEnded, scanVars, attVars>>

SearchCatch ==
    /\ op = "search" /\ pc = "catch"
    /\ respond([Response(500) EXCEPT !.error = err.message])
    /\ pc' = "finally"
    /\ UNCHANGED <<op, req, box, prior, connected, calls, logs, client, sessions, err, events, resEnded, scanVars, attVars>>

SearchFinally ==
    /\ op = "search" /\ pc = "finally"
    /\ FinallyLogout
    /\ UNCHANGED <<op, req, box, prior, connected, logs, client, err, ioVars, scanVars, attVars>>

NextSearch ==
    \/ SearchReject \/ SearchConnect \/ SearchMailboxOpen \/ SearchSearch
    \/ SearchFetch \/ SearchFetchBreaks \/ SearchMessage \/ SearchLogout
    \/ SearchCatch \/ SearchFinally

(***************************************************************************)
(* /test and /mailbox-stats                                                *)
(***************************************************************************)
TestReject ==
    /\ op = "test" /\ pc = "start" /\ ~req.valid
    /\ respond([Response(400) EXCEPT !.error = "Email and password required"])
    /\ pc' = "done"
    /\ UNCHANGED <<op, req, box, prior, connected, calls, logs, client, sessions, err, events, resEnded, scanVars, attVars>>

\* The failure texts createClient can throw with.
ConnectErrors == {"AUTHENTICATIONFAILED", "Please log in via your web browser", "connect failed"}

TestConnect ==
    /\ op = "test" /\ pc = "start" /\ req.valid
    /\ \/ /\ OpenSession
          /\ pc' = "logout"
          /\ UNCHANGED err
       \/ /\ err' \in {Error(m) : m \in ConnectErrors} /\ Call("connect", FALSE)
          /\ pc' = "catch"
          /\ UNCHANGED <<client, sessions>>
    /\ UNCHANGED <<op, req, box, prior, connected, logs, ioVars, scanVars, attVars>>

\* await client.logout(); res.json({success: true})
TestLogout ==
    /\ op = "test" /\ pc = "logout"
    /\ LogoutCalled
    /\ \/ respond(Response(200)) /\ pc' = "finally" /\ UNCHANGED err /\ Call("logout", TRUE)
       \/ err' = Error("logout failed") /\ Call("logout", FALSE) /\ pc' = "catch" /\ UNCHANGED responses
    /\ UNCHANGED <<op, req, box, prior, connected, logs, client, events, resEnded, scanVars, attVars>>

TestCatch ==
    /\ op = "test" /\ pc = "catch"
    /\ respond(CASE err.message = "AUTHENTICATIONFAILED" ->
                        [Response(401) EXCEPT !.error = "Invalid email or app password"]
                 [] err.message = "Please log in via your web browser" ->
                        [Response(401) EXCEPT !.error = "Please use an App Password (2FA required)"]
                 [] OTHER -> [Response(500) EXCEPT !.error = err.message])
    /\ pc' = "finally"
    /\ UNCHANGED <<op, req, box, prior, connected, calls, logs, client, sessions, err, events, resEnded, scanVars, attVars>>

TestFinally ==
    /\ op = "test" /\ pc = "finally"
    /\ FinallyLogout
    /\ UNCHANGED <<op, req, box, prior, connected, logs, client, err, ioVars, scanVars, attVars>>

StatsReject ==
    /\ op = "stats" /\ pc = "start" /\ ~req.valid
    /\ respond([Response(400) EXCEPT !.error = "Email and password required"])
    /\ pc' = "done"
    /\ UNCHANGED <<op, req, box, prior, connected, calls, logs, client, sessions, err, events, resEnded, scanVars, attVars>>

StatsConnect ==
    /\ op = "stats" /\ pc = "start" /\ req.valid
    /\ \/ /\ OpenSession
          /\ pc' = "status"
          /\ UNCHANGED err
       \/ /\ err' = Error("connect failed") /\ Call("connect", FALSE)
          /\ pc' = "catch"
          /\ UNCHANGED <<client, sessions>>
    /\ UNCHANGED <<op, req, box, prior, connected, logs, ioVars, scanVars, attVars>>

StatsStatus ==
    /\ op = "stats" /\ pc = "status"
    /\ \/ pc' = "logout" /\ UNCHANGED err /\ Call("status", TRUE)
       \/ err' = Error("status failed") /\ Call("status", FALSE) /\ pc' = "catch"
    /\ UNCHANGED <<op, req, box, prior, connected, logs, client, sessions, ioVars, scanVars, attVars>>

\* await client.logout(); res.json({totalMessages, recentMessages})
StatsLogout ==
    /\ op = "stats" /\ pc = "logout"
    /\ LogoutCalled
    /\ \/ /\ respond([Response(200) EXCEPT !.totalEmailsScanned = box.size])
          /\ pc' = "finally"
          /\ UNCHANGED err /\ Call("logout", TRUE)
       \/ err' = Error("logout failed") /\ Call("logout", FALSE) /\ pc' = "catch" /\ UNCHANGED responses
    /\ UNCHANGED <<op, req, box, prior, connected, logs, client, events, resEnded, scanVars, attVars>>

StatsCatch ==
    /\ op = "stats" /\ pc = "catch"
    /\ respond([Response(500) EXCEPT !.error = err.message])
    /\ pc' = "finally"
    /\ UNCHANGED <<op, req, box, prior, connected, calls, logs, client, sessions, err, events, resEnded, scanVars, attVars>>

StatsFinally ==
    /\ op = "stats" /\ pc = "finally"
    /\ FinallyLogout
    /\ UNCHANGED <<op, req, box, prior, connected, logs, client, err, ioVars, scanVars, attVars>>

NextSimple ==
    \/ TestReject \/ TestConnect \/ TestLogout \/ TestCatch \/ TestFinally
    \/ StatsReject \/ StatsConnect \/ StatsStatus \/ StatsLogout \/ StatsCatch
    \/ StatsFinally

(***************************************************************************)
(* /message                                                                *)
(***************************************************************************)
\* !email || !password || !messageUid
MessageParametersMissing(r) == ~r.valid \/ ~Truthy(r.messageUid)

MessageReject ==
    /\ op = "message" /\ pc = "start" /\ MessageParametersMissing(req)
    /\ respond([Response(400) EXCEPT !.error = "Missing required parameters"])
    /\ pc' = "done"
    /\ UNCHANGED <<op, req, box, prior, connected, calls, logs, client, sessions, err, events, resEnded, scanVars, attVars>>

MessageConnect ==
    /\ op = "message" /\ pc = "start" /\ ~MessageParametersMissing(req)
    /\ \/ /\ OpenSession
          /\ pc' = "open"
          /\ UNCHANGED err
       \/ /\ err' = Error("connect failed") /\ Call("connect", FALSE)
          /\ pc' = "catch"
          /\ UNCHANGED <<client, sessions>>
    /\ UNCHANGED <<op, req, box, prior, connected, logs, ioVars, scanVars, attVars>>

MessageMailboxOpen ==
    /\ op = "message" /\ pc = "open"
    /\ \/ pc' = "fetchOne" /\ UNCHANGED err /\ Call("mailboxOpen", TRUE)
       \/ err' = Error("mailboxOpen failed") /\ Call("mailboxOpen", FALSE) /\ pc' = "catch"
    /\ UNCHANGED <<op, req, box, prior, connected, logs, client, sessions, ioVars, scanVars, attVars>>

\* const msg = await client.fetchOne(messageUid, ...);
\* if (!msg) return res.status(404).json(...)   -- the finally block still runs
MessageFetchOne ==
    /\ op = "message" /\ pc = "fetchOne"
    /\ \/ /\ req.messageUid \in 1..box.size
          /\ pc' = "logout"
          /\ UNCHANGED <<err, responses>> /\ Call("fetchOne", TRUE)
       \/ /\ req.messageUid \notin 1..box.size
          /\ respond([Response(404) EXCEPT !.error = "Message not found"])
          /\ pc' = "finally"
          /\ UNCHANGED err /\ Call("fetchOne", TRUE)
       \/ /\ err' = Error("fetchOne failed") /\ Call("fetchOne", FALSE)
          /\ pc' = "catch"
          /\ UNCHANGED responses
    /\ UNCHANGED <<op, req, box, prior, connected, logs, client, sessions, events, resEnded, scanVars, attVars>>

\* await client.logout(); res.json({uid, subject, ..., attachments, ...})
MessageLogout ==
    /\ op = "message" /\ pc = "logout"
    /\ LogoutCalled
    /\ \/ /\ respond([Response(200) EXCEPT
                          !.messages = <<req.messageUid>>,
                          !.content = extractPdfAttachments(BodyStructure(req.messageUid))])
          /\ pc' = "finally"
          /\ UNCHANGED err /\ Call("logout", TRUE)
       \/ err' = Error("logout failed") /\ Call("logout", FALSE) /\ pc' = "catch" /\ UNCHANGED responses
    /\ UNCHANGED <<op, req, box, prior, connected, logs, client, events, resEnded, scanVars, attVars>>

MessageCatch ==
    /\ op = "message" /\ pc = "catch"
    /\ respond([Response(500) EXCEPT !.error = err.message])
    /\ pc' = "finally"
    /\ UNCHANGED <<op, req, box, prior, connected, calls, logs, client, sessions, err, events, resEnded, scanVars, attVars>>

MessageFinally ==
    /\ op = "message" /\ pc = "finally"
    /\ FinallyLogout
    /\ UNCHANGED <<op, req, box, prior, connected, logs, client, err, ioVars, scanVars, attVars>>

NextMessage ==
    \/ MessageReject \/ MessageConnect \/ MessageMailboxOpen \/ MessageFetchOne
    \/ MessageLogout \/ MessageCatch \/ MessageFinally

(***************************************************************************)
(* /attachment                                                             *)
(***************************************************************************)
\* Payloads a download can deliver: '%PDF-', '<html', nothing, '%PD', '%PDG'.
PdfPayload == <<37, 80, 68, 70, 45>>
HtmlPayload == <<60, 104, 116, 109, 108>>
EmptyPayload == <<>>
ShortPayload == <<37, 80, 68>>
NearPayload == <<37, 80, 68, 71>>
Payloads == {PdfPayload, HtmlPayload, EmptyPayload, ShortPayload, NearPayload}

\* What client.download() resolves to: a result without content, a result
\* whose stream fails, or a result whose stream delivers the bytes.
NoDownload == [content |-> "none", bytes |-> <<>>]
DownloadResults ==
    {[content |-> "none", bytes |-> <<>>], [content |-> "broken", bytes |-> <<>>]}
    \cup {[content |-> "stream", bytes |-> b] : b \in Payloads}

\* client.download() rejects.
DownloadFails == [content |-> "rejected", bytes |-> <<>>]

\* What client.download(messageUid, path) can do: anything when the mailbox
\* fixes nothing (box.served is empty), else what the mailbox serves at that
\* path, a rejection where it serves nothing.
Served(path) ==
    IF box.served = {} THEN DownloadResults \cup {DownloadFails}
    ELSE IF \E e \in box.served : e.path = path
         THEN {e.outcome : e \in {f \in box.served : f.path = path}}
         ELSE {DownloadFails}

\* buffer[k], undefined (Null) past the end.
ByteAt(buffer, k) == IF k + 1 <= Len(buffer) THEN buffer[k + 1] ELSE Null

\* Mutant of IsPdfMagic: the fourth byte is not compared.
IsPdfMagic_ThreeBytes(buffer) ==
    /\ ByteAt(buffer, 0) = 37
    /\ ByteAt(buffer, 1) = 80
    /\ ByteAt(buffer, 2) = 68

\* buffer[0] === 0x25 && buffer[1] === 0x50 && buffer[2] === 0x44 && buffer[3] === 0x46
IsPdfMagic(buffer) ==
    /\ ByteAt(buffer, 0) = 37
    /\ ByteAt(buffer, 1) = 80
    /\ ByteAt(buffer, 2) = 68
    /\ ByteAt(buffer, 3) = 70

\* Mutant of BackoffMs: the exponent is the attempt number itself.
BackoffMs_FromTwo(n) == 1000 * 2 ^ n

\* 1000 * Math.pow(2, attempt - 1)
BackoffMs(n) == 1000 * 2 ^ (n - 1)

\* attempt < MAX_RETRIES: a wait follows the failed attempt.
WaitsBeforeRetry(n) == n < MAX_RETRIES

\* attempt <= MAX_RETRIES: the loop's condition.
AttemptAllowed(n) == n <= MAX_RETRIES

\* Mutant of AttachmentParametersMissing: partId is not looked at.
AttachmentParametersMissing_NoPartId(r) == ~r.valid \/ ~Truthy(r.messageUid)

\* !email || !password || !messageUid || !partId; a missing partId is <<>>.
AttachmentParametersMissing(r) ==
    ~r.valid \/ ~Truthy(r.messageUid) \/ r.partId = <<>>

AttachmentReject ==
    /\ op = "attachment" /\ pc = "start" /\ AttachmentParametersMissing(req)
    /\ respond([Response(400) EXCEPT !.error = "Missing required parameters"])
    /\ pc' = "done"
    /\ UNCHANGED <<op, req, box, prior, connected, calls, logs, client, sessions, err, events, resEnded, scanVars, attVars>>

\* The loop's head for one attempt: let client = null; client = await createClient(...)
AttachmentConnect ==
    /\ op = "attachment" /\ pc = "start" /\ ~AttachmentParametersMissing(req)
    /\ AttemptAllowed(attempt)
    /\ \/ /\ OpenSession
          /\ pc' = "open"
          /\ UNCHANGED err
       \/ /\ err' = Error("connect failed") /\ Call("connect", FALSE)
          /\ client' = Null
          /\ pc' = "catch"
          /\ UNCHANGED sessions
    /\ tried' = <<>>
    /\ UNCHANGED <<op, req, box, prior, connected, logs, ioVars, scanVars, attempt, lastError, waits,
                   downloadResult, pdfParts, cand>>

AttachmentMailboxOpen ==
    /\ op = "attachment" /\ pc = "open"
    /\ \/ pc' = "download" /\ UNCHANGED err /\ Call("mailboxOpen", TRUE)
       \/ err' = Error("mailboxOpen failed") /\ Call("mailboxOpen", FALSE) /\ pc' = "catch"
    /\ UNCHANGED <<op, req, box, prior, connected, logs, client, sessions, ioVars, scanVars, attVars>>

\* downloadResult = await client.download(messageUid, partId, {uid: true})
AttachmentDownload ==
    /\ op = "attachment" /\ pc = "download"
    /\ tried' = Append(tried, req.partId)
    /\ \/ /\ downloadResult' \in Served(req.partId) \ {DownloadFails}
          /\ Call("download", TRUE)
          /\ pc' = "validate"
       \/ /\ DownloadFails \in Served(req.partId)
          /\ Call("download", FALSE)
          /\ pc' = "fetchOne"
          /\ UNCHANGED downloadResult
    /\ UNCHANGED <<op, req, box, prior, connected, logs, client, sessions, err, ioVars, scanVars, attempt,
                   lastError, waits, pdfParts, cand>>

\* The fallback: fetchOne for the structure, findPdfParts over it.
AttachmentFetchOne ==
    /\ op = "attachment" /\ pc = "fetchOne"
    /\ \/ /\ err' = Error("fetchOne failed") /\ Call("fetchOne", FALSE)
          /\ pc' = "catch"
          /\ UNCHANGED <<pdfParts, cand>>
       \/ /\ box.tree = NoStructure
          /\ Call("fetchOne", TRUE)
          /\ err' = Error("Could not get message structure")
          /\ pc' = "catch"
          /\ UNCHANGED <<pdfParts, cand>>
       \/ /\ box.tree # NoStructure
          /\ Call("fetchOne", TRUE)
          /\ pdfParts' = findPdfParts(box.tree)
          /\ cand' = 1
          /\ IF Len(findPdfParts(box.tree)) = 0
             THEN err' = Error("No PDF attachments found in message") /\ pc' = "catch"
             ELSE pc' = "candidate" /\ UNCHANGED err
    /\ UNCHANGED <<op, req, box, prior, connected, logs, client, sessions, ioVars, scanVars, attempt, lastError,
                   waits, downloadResult, tried>>

\* Mutant of AttachmentCandidate: a successful candidate download does not end
\* the loop while candidates remain.
AttachmentCandidate_NoBreak ==
    /\ op = "attachment" /\ pc = "candidate"
    /\ tried' = Append(tried, pdfParts[cand])
    /\ \/ /\ downloadResult' \in DownloadResults
          /\ Call("download", TRUE)
          /\ cand' = cand + 1
          /\ pc' = IF cand + 1 > Len(pdfParts) THEN "validate" ELSE "candidate"
          /\ UNCHANGED err
       \/ /\ cand' = cand + 1
          /\ Call("download", FALSE)
          /\ IF cand + 1 > Len(pdfParts)
             THEN err' = Error("Could not download any PDF attachment") /\ pc' = "catch"
             ELSE pc' = "candidate" /\ UNCHANGED err
          /\ UNCHANGED downloadResult
    /\ UNCHANGED <<op, req, box, prior, connected, logs, client, sessions, ioVars, scanVars, attempt,
                   lastError, waits, pdfParts>>

\* One turn of `for (const pdfPart of pdfParts)`: the download of the candidate
\* succeeds (break), or fails and the next candidate is due; after the last
\* candidate failed: 'Could not download any PDF attachment'.
AttachmentCandidate ==
    /\ op = "attachment" /\ pc = "candidate"
    /\ tried' = Append(tried, pdfParts[cand])
    /\ \/ /\ downloadResult' \in Served(pdfParts[cand]) \ {DownloadFails}
          /\ Call("download", TRUE)
          /\ pc' = "validate"
          /\ UNCHANGED <<cand, err>>
       \/ /\ DownloadFails \in Served(pdfParts[cand])
          /\ cand' = cand + 1
          /\ Call("download", FALSE)
          /\ IF cand + 1 > Len(pdfParts)
             THEN err' = Error("Could not download any PDF attachment") /\ pc' = "catch"
             ELSE pc' = "candidate" /\ UNCHANGED err
          /\ UNCHANGED downloadResult
    /\ UNCHANGED <<op, req, box, prior, connected, logs, client, sessions, ioVars, scanVars, attempt, lastError,
                   waits, pdfParts>>

\* The error a download result is rejected with, NoError when it is accepted
\* (lines 458-478).
ValidationError(result) ==
    IF result.content = "none" THEN Error("No content returned from download")
    ELSE IF result.content = "broken" THEN Error("stream failed")
    ELSE IF Len(result.bytes) = 0 THEN Error("Downloaded attachment is empty")
    ELSE IF ~IsPdfMagic(result.bytes)
         THEN [message |-> "Downloaded content is not a valid PDF",
               preview |-> result.bytes]
    ELSE NoError

\* A console.error line: its fixed text, the attempt it was written in, the
\* error message it quotes and the payload bytes the line contains.
LogLine(text, n, e) ==
    [text |-> text, attempt |-> n, message |-> e.message, preview |-> e.preview]

\* console.error(`... Downloaded content is not a PDF. Preview: ${preview}`)
NotPdfLog(result) ==
    IF result.content = "stream" /\ Len(result.bytes) > 0 /\ ~IsPdfMagic(result.bytes)
    THEN <<[text |-> "Downloaded content is not a PDF", attempt |-> attempt,
            message |-> "", preview |-> result.bytes]>>
    ELSE <<>>

AttachmentValidate ==
    /\ op = "attachment" /\ pc = "validate"
    /\ IF ValidationError(downloadResult) = NoError
       THEN pc' = "logout" /\ UNCHANGED err
       ELSE err' = ValidationError(downloadResult) /\ pc' = "catch"
    /\ logs' = logs \o NotPdfLog(downloadResult)
    /\ UNCHANGED <<op, req, box, prior, connected, calls, client, sessions, ioVars, scanVars, attVars>>

\* await client.logout(); return res.json({base64, filename, size})
AttachmentLogout ==
    /\ op = "attachment" /\ pc = "logout"
    /\ LogoutCalled
    /\ \/ /\ respond([Response(200) EXCEPT !.content = downloadResult.bytes])
          /\ pc' = "done"
          /\ UNCHANGED err /\ Call("logout", TRUE)
       \/ err' = Error("logout failed") /\ Call("logout", FALSE) /\ pc' = "catch" /\ UNCHANGED responses
    /\ UNCHANGED <<op, req, box, prior, connected, logs, client, events, resEnded, scanVars, attVars>>

\* Mutant of AttachmentCatch: lastError keeps the first attempt's error.
AttachmentCatch_FirstError ==
    /\ op = "attachment" /\ pc = "catch"
    /\ lastError' = IF lastError = NoError THEN err ELSE lastError
    /\ logs' = Append(logs, LogLine("Download error", attempt, err))
    /\ IF client # Null
       THEN LogoutCalled /\ Call("logout", TRUE)
       ELSE UNCHANGED <<sessions, calls>>
    /\ pc' = "backoff"
    /\ UNCHANGED <<op, req, box, prior, connected, client, err, ioVars, scanVars, attempt, waits,
                   downloadResult, pdfParts, cand, tried>>

\* Mutant of AttachmentCatch: the failed attempt's session is left as it is.
AttachmentCatch_NoLogout ==
    /\ op = "attachment" /\ pc = "catch"
    /\ lastError' = err
    /\ logs' = Append(logs, LogLine("Download error", attempt, err))
    /\ pc' = "backoff"
    /\ UNCHANGED <<op, req, box, prior, connected, calls, client, sessions, err, ioVars, scanVars,
                   attempt, waits, downloadResult, pdfParts, cand, tried>>

\* catch (err) { lastError = err; if (client) try { await client.logout(); } catch {} ...
AttachmentCatch ==
    /\ op = "attachment" /\ pc = "catch"
    /\ lastError' = err
    /\ logs' = Append(logs, LogLine("Download error", attempt, err))
    /\ IF client # Null
       THEN LogoutCalled /\ Call("logout", TRUE)
       ELSE UNCHANGED <<sessions, calls>>
    /\ pc' = "backoff"
    /\ UNCHANGED <<op, req, box, prior, connected, client, err, ioVars, scanVars, attempt, waits,
                   downloadResult, pdfParts, cand, tried>>

\* ... if (attempt < MAX_RETRIES) { await setTimeout(waitMs) } }; attempt++
AttachmentBackoff ==
    /\ op = "attachment" /\ pc = "backoff"
    /\ waits' = IF WaitsBeforeRetry(attempt) THEN Append(waits, BackoffMs(attempt)) ELSE waits
    /\ attempt' = attempt + 1
    /\ pc' = "start"
    /\ UNCHANGED <<op, req, box, prior, connected, calls, logs, client, sessions, err, ioVars, scanVars, lastError,
                   downloadResult, pdfParts, cand, tried>>

\* The loop is over: res.status(500).json({error: lastError?.message || ...})
AttachmentGiveUp ==
    /\ op = "attachment" /\ pc = "start" /\ ~AttachmentParametersMissing(req)
    /\ ~AttemptAllowed(attempt)
    /\ logs' = Append(logs, LogLine("All retries failed", attempt, lastError))
    /\ respond([Response(500) EXCEPT !.error = lastError.message,
                                     !.preview = lastError.preview])
    /\ pc' = "done"
    /\ UNCHANGED <<op, req, box, prior, connected, calls, client, sessions, err, events, resEnded, scanVars, attVars>>

NextAttachment ==
    \/ AttachmentReject \/ AttachmentConnect \/ AttachmentMailboxOpen
    \/ AttachmentDownload \/ AttachmentFetchOne \/ AttachmentCandidate
    \/ AttachmentValidate \/ AttachmentLogout \/ AttachmentCatch
    \/ AttachmentBackoff \/ AttachmentGiveUp

(***************************************************************************)
(* A second scan request on the same server                                *)
(***************************************************************************)
RECURSIVE BatchedMessages(_)
\* The messages of the pdf_batch events of es, concatenated in emission order.
BatchedMessages(es) ==
    IF es = <<>> THEN <<>>
    ELSE (IF Head(es).type = "pdf_batch" THEN Head(es).messages ELSE <<>>)
         \o BatchedMessages(Tail(es))

\* The scan request has been served to its end without a failure.
ScanSucceeded ==
    /\ pc = "done"
    /\ \/ op = "stream" /\ events # <<>> /\ Last(events).type = "complete"
       \/ op = "search" /\ responses # <<>> /\ responses[1].status = 200

\* What the client has received from a scan that succeeded.
ScanOutcome ==
    IF op = "stream"
    THEN [op |-> op, messages |-> BatchedMessages(events),
          totalEmailsScanned |-> Last(events).scanned,
          totalWithPdf |-> Last(events).withPdf,
          scannedUids |-> scannedUids]
    ELSE [op |-> op, messages |-> responses[1].messages,
          totalEmailsScanned |-> responses[1].totalEmailsScanned,
          totalWithPdf |-> responses[1].totalWithPdf,
          scannedUids |-> scannedUids]

\* The next POST arrives after a scan succeeded: the same body (daysBack,
\* maxResults) is sent to /search or /search-stream. The request gets its own
\* `res` and `client`; what the handler declares (`const messages = []`,
\* `let totalEmailsScanned = ...`) is assigned by the handler's actions.
NextRequest ==
    /\ op \in {"stream", "search"} /\ prior = NoPrior /\ ScanSucceeded
    /\ prior' = ScanOutcome
    /\ op' \in {"stream", "search"}
    /\ pc' = "start"
    /\ client' = Null
    /\ events' = <<>>
    /\ resEnded' = FALSE
    /\ responses' = <<>>
    /\ err' = NoError
    /\ calls' = <<>>
    /\ scannedUids' = <<>>
    /\ UNCHANGED <<req, box, connected, sessions, logs, allUids, i, batch, messages, pendingMessages,
                   totalEmailsScanned, totalWithPdf, lastProcessedUid, skippedToResume,
                   attVars>>

(***************************************************************************)
(* The structure walkers on their own                                      *)
(***************************************************************************)
\* extractPdfAttachments(bodyStructure) and findPdfParts(bodyStructure) are
\* applied to the structure box.tree; the /attachment handler calls
\* findPdfParts only when the message has a structure.
WalkStructure ==
    /\ op = "walk" /\ pc = "start"
    /\ respond([Response(200) EXCEPT !.content = extractPdfAttachments(box.tree)])
    /\ pdfParts' = IF box.tree = NoStructure THEN <<>> ELSE findPdfParts(box.tree)
    /\ pc' = "done"
    /\ UNCHANGED <<op, req, box, prior, connected, calls, logs, client, sessions, err, events, resEnded,
                   scanVars, attempt, lastError, waits, downloadResult, cand, tried>>

(***************************************************************************)
(* The caller of a streaming scan goes away                                *)
(***************************************************************************)
\* The caller closes the connection while the response is open. The handler
\* registers no listener for it, and res.write on a closed connection does not
\* throw: nothing of the handler's state changes.
CallerDisconnects ==
    /\ op = "stream" /\ connected
    /\ pc \notin {"start", "done"} /\ ~resEnded
    /\ connected' = FALSE
    /\ UNCHANGED <<op, req, box, prior, pc, client, sessions, err, ioVars, scanVars, attVars,
                   calls, logs>>

(***************************************************************************)
(* Requests, the initial state, the specification                          *)
(***************************************************************************)
Ops == {"stream", "search", "attachment", "message", "test", "stats"}

\* The fields a handler does not read keep their defaults.
Request(valid, maxResults, resumeAfterUid, sinceUid, previous, messageUid, partId) ==
    [valid |-> valid, maxResults |-> maxResults, resumeAfterUid |-> resumeAfterUid,
     sinceUid |-> sinceUid, previousScanned |-> previous[1],
     previousWithPdf |-> previous[2], messageUid |-> messageUid, partId |-> partId,
     daysBack |-> DefaultDaysBack]

StreamRequests ==
    {Request(TRUE, m, r, s, p, Null, <<>>) :
        m \in MaxResultsValues, r \in ResumeValues, s \in SinceValues, p \in PreviousValues}
    \cup {Request(FALSE, DefaultMaxResults, Null, Null, <<0, 0>>, Null, <<>>)}

SearchRequests ==
    {Request(v, m, Null, Null, <<0, 0>>, Null, <<>>) : v \in BOOLEAN, m \in MaxResultsValues}

SimpleRequests ==
    {Request(v, DefaultMaxResults, Null, Null, <<0, 0>>, Null, <<>>) : v \in BOOLEAN}

MessageRequests ==
    {Request(v, DefaultMaxResults, Null, Null, <<0, 0>>, u, <<>>) :
        v \in BOOLEAN, u \in {Null, 0, SmallCap, MaxUid + 1}}

AttachmentRequests ==
    {Request(v, DefaultMaxResults, Null, Null, <<0, 0>>, u, q) :
        v \in BOOLEAN, u \in {Null, SmallCap}, q \in {<<>>, <<2>>}}

AttachmentTrees == {TreeInvoice, TreeNested, TreeRootPdf, TreeNoPdf, NoStructure}

Box(size, stride, order, tree) ==
    [size |-> size, stride |-> stride, order |-> order, tree |-> tree, dayStep |-> 0,
     searchArray |-> TRUE, served |-> {}]

ScanBoxes == {Box(n, k, o, TreePlain) : n \in BoxSizes, k \in PdfStrides, o \in FetchOrders}

InitHandler ==
    /\ pc = "start"
    /\ client = Null
    /\ sessions = <<>>
    /\ events = <<>>
    /\ resEnded = FALSE
    /\ responses = <<>>
    /\ err = NoError
    /\ allUids = <<>>
    /\ i = 0
    /\ batch = <<>>
    /\ messages = <<>>
    /\ pendingMessages = <<>>
    /\ totalEmailsScanned = 0
    /\ totalWithPdf = 0
    /\ lastProcessedUid = Null
    /\ skippedToResume = 0
    /\ scannedUids = <<>>
    /\ attempt = 1
    /\ lastError = NoError
    /\ waits = <<>>
    /\ downloadResult = NoDownload
    /\ pdfParts = <<>>
    /\ cand = 1
    /\ tried = <<>>
    /\ calls = <<>>
    /\ logs = <<>>
    /\ prior = NoPrior
    /\ connected = TRUE

InitStream == op = "stream" /\ req \in StreamRequests /\ box \in ScanBoxes /\ InitHandler
InitSearch == op = "search" /\ req \in SearchRequests /\ box \in ScanBoxes /\ InitHandler
InitSimple ==
    /\ op \in {"test", "stats"}
    /\ req \in SimpleRequests
    /\ box = Box(MaxUid, SmallCap, "desc", TreePlain)
    /\ InitHandler
InitMessage ==
    /\ op = "message"
    /\ req \in MessageRequests
    /\ box = Box(MaxUid, SmallCap, "desc", TreePlain)
    /\ InitHandler
InitAttachment ==
    /\ op = "attachment"
    /\ req \in AttachmentRequests
    /\ box \in {Box(MaxUid, SmallCap, "desc", t) : t \in AttachmentTrees}
    /\ InitHandler

Init == InitStream \/ InitSearch \/ InitSimple \/ InitMessage \/ InitAttachment

Next == NextStream \/ NextSearch \/ NextSimple \/ NextMessage \/ NextAttachment

Spec == Init /\ [][Next]_vars

\* The non-empty sequences over S of at most n elements.
SeqsUpTo(S, n) == UNION {[1..m -> S] : m \in 1..n}

\* The structures the walkers are applied to: none, a leaf, or a multipart of
\* up to MaxChildren parts, each a leaf or a multipart of up to MaxChildren
\* leaves; a multipart may carry a name parameter.
ContainerNames == {<<>>, Str_inv_pdf}
InnerLeaves == {TextLeaf, PdfLeaf}
RootLeaves == {TextLeaf, PdfLeaf, NamedPdfLeaf, PdfLeafUpper, ShadowedLeaf}
InnerContainers ==
    {Multi("alternative", n, c) : n \in ContainerNames, c \in SeqsUpTo(InnerLeaves, MaxChildren)}
WalkTrees ==
    {NoStructure} \cup RootLeaves \cup
    {Multi("mixed", n, c) :
        n \in ContainerNames, c \in SeqsUpTo(RootLeaves \cup InnerContainers, MaxChildren)}

InitWalk ==
    /\ op = "walk"
    /\ req = Request(TRUE, DefaultMaxResults, Null, Null, <<0, 0>>, Null, <<>>)
    /\ box \in {Box(0, SmallCap, "desc", t) : t \in WalkTrees}
    /\ InitHandler

SpecWalk == InitWalk /\ [][WalkStructure]_vars

\* Streaming scans of mailboxes whose search gives a UID list, possibly empty,
\* and of mailboxes whose search gives no list at all.
EmptyBoxes == ScanBoxes \cup {[b EXCEPT !.searchArray = FALSE] : b \in ScanBoxes}

InitEmpty == op = "stream" /\ req \in StreamRequests /\ box \in EmptyBoxes /\ InitHandler

SpecEmpty == InitEmpty /\ [][NextStream]_vars

\* Scans of a mailbox whose messages reach back more than MaxDaysBack days,
\* for look-backs around 0, the default and the clamp, with and without sinceUid.
DaysBackValues ==
    {-5, 0, 1, DefaultDaysBack, MaxDaysBack - 1, MaxDaysBack, MaxDaysBack + 1, 100000}

WithDaysBack(r, daysBack) == [r EXCEPT !.daysBack = daysBack]

DaysRequests ==
    {WithDaysBack(Request(v, DefaultMaxResults, Null, s, <<0, 0>>, Null, <<>>), d) :
        v \in BOOLEAN, s \in {Null, 0, DaysSinceUid}, d \in DaysBackValues}

InitDays ==
    /\ op \in {"stream", "search"}
    /\ req \in DaysRequests
    /\ op = "search" => req.sinceUid = Null
    /\ box = [Box(DaysBoxSize, 2, "desc", TreePlain) EXCEPT !.dayStep = DayStep]
    /\ InitHandler

NextDays == NextStream \/ NextSearch

SpecDays == InitDays /\ [][NextDays]_vars

\* Two scans in a row, without resume point, sinceUid or previous counts.
PairRequests ==
    {Request(v, m, Null, Null, <<0, 0>>, Null, <<>>) : v \in BOOLEAN, m \in MaxResultsValues}

InitPair ==
    /\ op \in {"stream", "search"}
    /\ req \in PairRequests
    /\ box \in ScanBoxes
    /\ InitHandler

NextPair == NextStream \/ NextSearch \/ NextRequest

SpecPair == InitPair /\ [][NextPair]_vars

(***************************************************************************)
(* Attachment retrieval from a mailbox that serves fixed parts             *)
(***************************************************************************)
\* The message has the structure TreeNested, whose PDF parts are 2.1 and 3.
\* The requested part 2 is the multipart container, whose download is
\* rejected; each of the two PDF parts is served in one fixed way.
ServedBoxes ==
    {[Box(MaxUid, SmallCap, "desc", TreeNested) EXCEPT
          !.served = {[path |-> <<2>>, outcome |-> DownloadFails],
                      [path |-> <<2, 1>>, outcome |-> a],
                      [path |-> <<3>>, outcome |-> b]}] :
        a \in DownloadResults \cup {DownloadFails},
        b \in DownloadResults \cup {DownloadFails}}

InitParts ==
    /\ op = "attachment"
    /\ req \in AttachmentRequests
    /\ box \in ServedBoxes \cup {Box(MaxUid, SmallCap, "desc", t) : t \in AttachmentTrees}
    /\ InitHandler

SpecParts == InitParts /\ [][NextAttachment]_vars

(***************************************************************************)
(* A streaming scan resumed from a progress event                          *)
(***************************************************************************)
\* The caller stops reading right after a progress event and posts the scan
\* again with the event's cursor: resumeAfterUid = lastUid, previousScanned =
\* scanned, previousWithPdf = withPdf. The new request gets its own `res` and
\* `client`; the handler's actions assign what the handler declares.
ResumeRequest ==
    /\ op = "stream" /\ prior = NoPrior
    /\ events # <<>> /\ Last(events).type = "progress"
    /\ totalEmailsScanned = Last(events).scanned
    /\ prior' = [op |-> "progress", messages |-> BatchedMessages(events),
                 totalEmailsScanned |-> Last(events).scanned,
                 totalWithPdf |-> Last(events).withPdf,
                 scannedUids |-> scannedUids]
    /\ req' = [req EXCEPT !.resumeAfterUid = Last(events).lastUid,
                          !.previousScanned = Last(events).scanned,
                          !.previousWithPdf = Last(events).withPdf]
    /\ pc' = "start"
    /\ client' = Null
    /\ events' = <<>>
    /\ resEnded' = FALSE
    /\ responses' = <<>>
    /\ err' = NoError
    /\ calls' = <<>>
    /\ scannedUids' = <<>>
    /\ UNCHANGED <<op, box, connected, sessions, logs, allUids, i, batch, messages, pendingMessages,
                   totalEmailsScanned, totalWithPdf, lastProcessedUid, skippedToResume,
                   attVars>>

\* The first request of a resumed scan is a full or incremental scan from
\* the start: no resume point, no previous totals.
FirstRequests ==
    {Request(v, m, Null, s, <<0, 0>>, Null, <<>>) :
        v \in BOOLEAN, m \in MaxResultsValues, s \in SinceValues}

InitResume == op = "stream" /\ req \in FirstRequests /\ box \in ScanBoxes /\ InitHandler

NextResume == NextStream \/ ResumeRequest

SpecResume == InitResume /\ [][NextResume]_vars

\* Streaming scans whose caller may disconnect.
InitCancel ==
    /\ op = "stream"
    /\ req \in PairRequests
    /\ box \in ScanBoxes
    /\ InitHandler

NextCancel == NextStream \/ CallerDisconnects

SpecCancel == InitCancel /\ [][NextCancel]_vars

(***************************************************************************)
(* Properties                                                              *)
(***************************************************************************)
IsTerminal(e) == e.type \in {"complete", "error"}

EventsOfType(type) == SelectSeq(events, LAMBDA e : e.type = type)

\* The candidates of the scan, from the mailbox and the request alone.
Candidates ==
    {u \in 1..box.size : Truthy(req.sinceUid) => u > req.sinceUid}

SeqSet(s) == {s[j] : j \in 1..Len(s)}

RECURSIVE SumLen(_)
\* The number of messages carried by a sequence of events.
SumLen(es) == IF es = <<>> THEN 0 ELSE Len(Head(es).messages) + SumLen(Tail(es))

\* The scan has run to its end without a failure.
StreamCompleted == op = "stream" /\ events # <<>> /\ Last(events).type = "complete"

\* C1 as stated: every valid streaming scan's event sequence begins with
\* Start and ends with exactly one terminal event (Complete or Error), also
\* when connecting, the mailbox-count call, the search or a fetch fails; no
\* event follows the terminal event.
C1_StartFirstTerminalLast ==
    (op = "stream" /\ req.valid /\ pc = "done") =>
        /\ events # <<>>
        /\ events[1].type = "start"
        /\ IsTerminal(Last(events))
        /\ \A j \in 1..(Len(events) - 1) : ~IsTerminal(events[j])

\* C1 amended: the sequence ends with exactly one terminal event and nothing
\* follows it (at no time is there an event after a terminal one, and the
\* response is ended only once the terminal event is written); Start is emitted
\* at most once, only as the first event, and it is emitted whenever connect
\* and the mailbox-count call succeeded; when one of these two fails the
\* sequence is the single Error event of that failure.
C1_TerminalLast ==
    op = "stream" =>
        /\ \A j \in 1..(Len(events) - 1) : ~IsTerminal(events[j])
        /\ \A j \in 2..Len(events) : events[j].type # "start"
        /\ resEnded => (events # <<>> /\ IsTerminal(Last(events)))
        /\ (req.valid /\ pc = "done") =>
              /\ resEnded
              /\ \/ events[1].type = "start"
                 \/ /\ Len(events) = 1
                    /\ events[1].type = "error"
                    /\ events[1].error \in {"connect failed", "status failed"}
        /\ (events # <<>> /\ events[1].type = "error") =>
              events[1].error \in {"connect failed", "status failed"}

\* A scan that emitted Start, Progress and PdfBatch events and then failed.
C1_Witness ==
    /\ op = "stream" /\ pc = "done"
    /\ Len(events) > 3
    /\ events[1].type = "start"
    /\ Last(events).type = "error"
    /\ EventsOfType("progress") # <<>>

\* What C2 says of a scan with resume point U.
ResumeRespected(U) ==
    /\ \A j \in 1..Len(events) : \A u \in SeqSet(events[j].messages) : u < U
    /\ \A u \in SeqSet(scannedUids) : u < U
    /\ \A u \in SeqSet(messages) : u < U
    /\ pc \in {"search", "loop", "iter", "logout"} =>
          /\ totalEmailsScanned = req.previousScanned + Len(scannedUids)
          /\ totalWithPdf = req.previousWithPdf
                              + Cardinality({u \in SeqSet(scannedUids) : HasPdfStructure(u)})

\* C2 as stated: for every resumeAfterUid = U, no message with UID >= U is in
\* a PdfBatch event or counted; the counts rise above the previous counts only
\* for messages with UID < U.
C2_ResumeSkipsAnyU ==
    (op = "stream" /\ req.resumeAfterUid # Null) => ResumeRespected(req.resumeAfterUid)

\* C2 amended: the same for every non-zero resumeAfterUid = U; a request with
\* resumeAfterUid = 0 is handled as a scan without a resume point.
C2_ResumeSkips ==
    (op = "stream" /\ Truthy(req.resumeAfterUid)) => ResumeRespected(req.resumeAfterUid)

\* A resumed scan that skipped messages, scanned others and sent a PdfBatch.
C2_Witness ==
    /\ StreamCompleted
    /\ req.resumeAfterUid = ResumeUid
    /\ skippedToResume > 0
    /\ scannedUids # <<>>
    /\ EventsOfType("pdf_batch") # <<>>

\* The candidates a scan counts: all of them but those skipped by the resume.
Counted == {u \in Candidates : ~(Truthy(req.resumeAfterUid) /\ u >= req.resumeAfterUid)}

C4_SessionReleased ==
    (pc = "done" \/ (op = "attachment" /\ pc \in {"start", "backoff"})) =>
        \A k \in 1..Len(sessions) : sessions[k] >= 1

\* The early not-found return of /message, with its session released.
C4_Witness ==
    /\ op = "message" /\ pc = "done"
    /\ Len(sessions) = 1 /\ sessions[1] >= 1
    /\ responses # <<>> /\ responses[1].status = 404

\* C5: logout is invoked exactly once on every session opened, never twice.
C5_LogoutOnce == \A k \in 1..Len(sessions) : sessions[k] <= 1

\* C6: a failure of logout is swallowed: the streaming scan that processed
\* all candidates still ends with Complete, the non-streaming scan still
\* returns its result, and the validated attachment is still returned without
\* a further attempt.
C6_LogoutFailureSwallowed ==
    /\ (op = "stream" /\ events # <<>> /\ Last(events).type = "error") =>
          Last(events).error # "logout failed"
    /\ (op = "search" /\ responses # <<>>) => responses[1].error # "logout failed"
    /\ op = "attachment" => lastError.message # "logout failed"

\* C7: the Complete event carries previousScanned plus the number of
\* candidates scanned (not skipped) in this invocation, and previousWithPdf
\* plus the number of those that carry a PDF.
C7_CumulativeTotals ==
    StreamCompleted =>
        /\ Last(events).scanned = req.previousScanned + Len(scannedUids)
        /\ Last(events).scanned = req.previousScanned + Cardinality(Counted)
        /\ Last(events).withPdf
              = req.previousWithPdf + Cardinality({u \in Counted : HasPdfStructure(u)})
        /\ SeqSet(scannedUids) = Counted

\* The incremental scan of the example: previous counts 40 and 3, 10 new
\* messages of which one carries a PDF: 50 and 4.
C7_Witness ==
    /\ StreamCompleted
    /\ req.sinceUid = SinceUid /\ req.resumeAfterUid = Null
    /\ req.previousScanned = PrevScanned /\ req.previousWithPdf = PrevWithPdf
    /\ Len(scannedUids) = MaxUid - SinceUid
    /\ Last(events).scanned = PrevScanned + (MaxUid - SinceUid)
    /\ Last(events).withPdf = PrevWithPdf + 1

\* C8: the j-th Progress event of a scan has scanned = previousScanned +
\* 50 * j (so the values rise by exactly 50), and at every moment the number
\* of Progress events is the number of multiples of 50 reached by the count
\* of messages scanned in this invocation; skipped messages trigger none.
C8_ProgressEvery50 ==
    op = "stream" =>
        LET progress == EventsOfType("progress")
        IN  /\ \A j \in 1..Len(progress) :
                  progress[j].scanned = req.previousScanned + 50 * j
            /\ Len(progress) = Len(scannedUids) \div 50

\* Two Progress events in a scan that started from previous counts.
C8_Witness ==
    /\ op = "stream"
    /\ req.previousScanned = PrevScanned
    /\ Len(EventsOfType("progress")) = 2

\* C9: attachment retrieval makes at most 3 attempts and stops at the first
\* successful one; it has waited 1000 ms after the first failed attempt and
\* 2000 ms after the second, and nothing after the third.  (`attempt` is the
\* attempt under way, or the one about to begin when pc = "start"; it is 4
\* once the third has failed.)
C9_RetryBackoff ==
    op = "attachment" =>
        /\ attempt \in 1..4
        /\ attempt = 4 => pc \in {"start", "done"}
        /\ Len(sessions) <= Min(attempt, 3)
        /\ waits = SubSeq(<<1000, 2000>>, 1, Min(attempt - 1, 2))
        /\ Len(responses) <= 1
        /\ responses # <<>> => pc = "done"
        /\ (responses # <<>> /\ responses[1].status = 500) => attempt = 4
        /\ (responses # <<>> /\ responses[1].status = 200) => attempt <= 3

\* Three failed attempts: both waits were made, and none after the third.
C9_Witness ==
    /\ op = "attachment" /\ pc = "done"
    /\ responses[1].status = 500
    /\ Len(sessions) = 3
    /\ waits = <<1000, 2000>>

\* C10: content is returned only if the payload is non-empty and begins with
\* 0x25 0x50 0x44 0x46; any other payload makes the attempt fail.
C10_OnlyPdfReturned ==
    op = "attachment" =>
        /\ (pc = "logout" \/ (responses # <<>> /\ responses[1].status = 200)) =>
              /\ Len(downloadResult.bytes) >= 4
              /\ SubSeq(downloadResult.bytes, 1, 4) = <<37, 80, 68, 70>>
        /\ \A j \in 1..Len(responses) :
              responses[j].status = 200 =>
                 /\ Len(responses[j].content) >= 4
                 /\ SubSeq(responses[j].content, 1, 4) = <<37, 80, 68, 70>>

\* A PDF returned by the attempt that followed one rejected for its payload.
C10_Witness ==
    /\ op = "attachment" /\ pc = "done"
    /\ responses[1].status = 200
    /\ responses[1].content = PdfPayload
    /\ lastError.message = "Downloaded content is not a valid PDF"

\* The collaborator calls of the running (or last) /attachment attempt: those
\* from its createClient on.
AttemptCalls ==
    LET starts == {j \in 1..Len(calls) : calls[j].name = "connect"}
    IN  IF starts = {} THEN <<>>
        ELSE SubSeq(calls, CHOOSE j \in starts : \A k \in starts : k <= j, Len(calls))

CallsNamed(cs, name) == SelectSeq(cs, LAMBDA c : c.name = name)

\* The PDF parts of the model's messages, in the order a walk from the root
\* meets them.
PdfPartsInOrder(tree) ==
    CASE tree = TreeInvoice -> << <<2>> >>
      [] tree = TreeNested -> << <<2, 1>>, <<3>> >>
      [] tree = TreeRootPdf -> << <<1>> >>
      [] OTHER -> <<>>

\* C11: within an attempt the given part path is downloaded first; the
\* structure is fetched and the located candidates are downloaded, in
\* discovery order, only after the direct download failed; no download follows
\* a successful one; the attempt fails when every candidate failed or the
\* structure could not be fetched.
C11_DirectThenCandidates ==
    op = "attachment" =>
        LET downloads == CallsNamed(AttemptCalls, "download")
            structure == CallsNamed(AttemptCalls, "fetchOne")
            expected == PdfPartsInOrder(box.tree)
        IN  /\ Len(downloads) = Len(tried)
            /\ tried # <<>> => tried[1] = req.partId
            /\ Len(tried) - 1 <= Len(expected)
            /\ tried # <<>> => Tail(tried) = SubSeq(expected, 1, Len(tried) - 1)
            /\ \A j \in 1..(Len(downloads) - 1) : ~downloads[j].ok
            /\ Len(structure) <= 1
            /\ structure # <<>> => (downloads # <<>> /\ ~downloads[1].ok)
            /\ Len(tried) > 1 => (structure # <<>> /\ structure[1].ok)
            /\ (downloads # <<>> /\ Last(downloads).ok) => pc # "candidate"
            /\ (pc = "catch" /\ structure # <<>> /\ ~structure[1].ok) =>
                    (err.message = "fetchOne failed" /\ Len(tried) = 1)
            /\ (pc = "catch" /\ structure # <<>> /\ structure[1].ok
                    /\ box.tree = NoStructure) =>
                    (err.message = "Could not get message structure" /\ Len(tried) = 1)
            /\ (Len(tried) = 1 + Len(expected) /\ expected # <<>>
                    /\ ~Last(downloads).ok) =>
                    /\ pc \in {"catch", "backoff", "start", "done"}
                    /\ pc = "catch" => err.message = "Could not download any PDF attachment"

\* C11's case: the direct download and the first candidate failed, the second
\* candidate's download succeeded.
C11_Witness ==
    /\ op = "attachment" /\ pc = "validate"
    /\ tried = << <<2>>, <<2, 1>>, <<3>> >>
    /\ Last(calls).name = "download" /\ Last(calls).ok

\* The errors the attempts of the retrieval ended with, one per failed attempt
\* (the console.error line of the catch block).
AttemptErrors == SelectSeq(logs, LAMBDA l : l.text = "Download error")

RequiredFieldMissing ==
    CASE op = "attachment" -> ~req.valid \/ req.messageUid = Null \/ req.partId = <<>>
      [] op = "message" -> ~req.valid \/ req.messageUid = Null
      [] OTHER -> ~req.valid

\* C13: a request that lacks a required field (the credentials everywhere,
\* messageUid or partId for /attachment, messageUid for /message) is answered
\* with 400 and nothing else happens: no session is opened, no collaborator
\* call is made, no event is written.
C13_MissingFieldRejected ==
    RequiredFieldMissing =>
        /\ calls = <<>>
        /\ sessions = <<>>
        /\ client = Null
        /\ events = <<>>
        /\ ~resEnded
        /\ logs = <<>>
        /\ pc \in {"start", "done"}
        /\ pc = "start" => responses = <<>>
        /\ pc = "done" => (Len(responses) = 1 /\ responses[1].status = 400)

\* C13's case: an /attachment request without partId was answered.
C13_Witness ==
    /\ op = "attachment" /\ req.valid /\ req.messageUid # Null /\ req.partId = <<>>
    /\ pc = "done"
    /\ responses[1].status = 400

\* C14 as stated: no error response and no log line contains bytes of the
\* downloaded payload, so that retrievals that differ only in the bytes of an
\* invalid payload produce the same error messages and log lines.
C14_NoPayloadInErrors ==
    op = "attachment" =>
        /\ \A j \in 1..Len(responses) : responses[j].preview = <<>>
        /\ \A j \in 1..Len(logs) : logs[j].preview = <<>>

\* C15: for the same mailbox and the same request (no resume point, no
\* sinceUid, previous counts 0) the streaming and the non-streaming scan agree:
\* the messages of the PdfBatch events, concatenated, are the non-streaming
\* messages list, and Complete's totals are the non-streaming totals.
C15_StreamAgreesWithSearch ==
    (ScanSucceeded /\ prior # NoPrior /\ prior.op # op) =>
        /\ ScanOutcome.messages = prior.messages
        /\ ScanOutcome.totalEmailsScanned = prior.totalEmailsScanned
        /\ ScanOutcome.totalWithPdf = prior.totalWithPdf

\* C15's case: a streaming scan that sent three batches (10, 10 and 4
\* messages) after a non-streaming scan of the same mailbox.
C15_Witness ==
    /\ ScanSucceeded /\ op = "stream" /\ prior.op = "search"
    /\ Len(EventsOfType("pdf_batch")) = 3
    /\ Len(prior.messages) = 24
    /\ box.order = "asc"

\* C16: two non-streaming scans with the same request on an unchanged
\* mailbox return the same totalEmailsScanned, totalWithPdf and ordered messages
\* list.
C16_SearchTwice ==
    (ScanSucceeded /\ op = "search" /\ prior.op = "search") =>
        /\ responses[1].messages = prior.messages
        /\ responses[1].totalEmailsScanned = prior.totalEmailsScanned
        /\ responses[1].totalWithPdf = prior.totalWithPdf
        /\ Len(responses) = 1

\* C16's case: the second scan returned the capped list of the first.
C16_Witness ==
    /\ ScanSucceeded /\ op = "search" /\ prior.op = "search"
    /\ Len(responses[1].messages) = SmallCap
    /\ responses[1].totalWithPdf > SmallCap
    /\ responses[1].totalEmailsScanned = MaxUid

\* The walker has been applied to box.tree.
Walked == op = "walk" /\ pc = "done"

RECURSIVE NodeAt(_, _)
\* The node of tree at the positional path: child path[1] of the root, then
\* child path[2] of that node, ...; the root for the empty path. NoStructure
\* when there is no such node.
NodeAt(tree, path) ==
    IF path = <<>> THEN tree
    ELSE IF Head(path) \in 1..Len(tree.childNodes)
         THEN NodeAt(tree.childNodes[Head(path)], Tail(path))
         ELSE NoStructure

\* C17 as stated: the partIds of the descriptors extractPdfAttachments
\* returns are pairwise distinct, and each is the positional path of a PDF
\* node ('1' for a reported root); multipart/mixed[text/plain,
\* application/pdf(filename='inv.pdf')] yields exactly one descriptor, inv.pdf
\* with partId '2', and a tree whose only PDF is at 2.1 yields exactly one
\* descriptor with partId '2.1'.
C17_PartIdsDistinctPositional ==
    Walked =>
        LET ds == responses[1].content
        IN  /\ \A j, k \in 1..Len(ds) : j # k => ds[j].partId # ds[k].partId
            /\ \A j \in 1..Len(ds) :
                    \/ /\ ds[j].partId = <<1>> /\ IsPdfPart(box.tree)
                    \/ /\ NodeAt(box.tree, ds[j].partId) # NoStructure
                       /\ IsPdfPart(NodeAt(box.tree, ds[j].partId))
            /\ box.tree = TreeInvoice =>
                    (Len(ds) = 1 /\ ds[1].filename = Str_inv_pdf /\ ds[1].partId = <<2>>)
            /\ box.tree = Multi("mixed", <<>>,
                                <<TextLeaf, Multi("alternative", <<>>, <<PdfLeaf>>)>>) =>
                    (Len(ds) = 1 /\ ds[1].partId = <<2, 1>>)

\* C18 as stated: no descriptor extractPdfAttachments returns is that of a
\* multipart/* node, whatever the node's filename or name parameter is.
C18_NoContainerReported ==
    Walked =>
        \A j \in 1..Len(responses[1].content) :
            responses[1].content[j].mimeType[1] # "multipart"

\* The PDF-bearing messages among the scanned ones, in scan order, up to the cap.
AcceptedInScanOrder ==
    LET withPdf == SelectSeq(scannedUids, LAMBDA u : HasPdfStructure(u))
    IN  SubSeq(withPdf, 1, Min(Len(withPdf), req.maxResults))

\* C19: every PdfBatch carries 1 to 10 messages; a batch is sent as soon as
\* 10 messages are pending and none is pending afterwards; the accepted
\* messages are, in scan order and each once, the messages of the batches
\* followed by the pending ones; the remainder is sent as a last PdfBatch
\* before Complete, which carries no messages.
C19_PdfBatches ==
    op = "stream" =>
        LET bs == EventsOfType("pdf_batch")
            sent == BatchedMessages(events)
        IN  /\ \A j \in 1..Len(bs) :
                    Len(bs[j].messages) >= 1 /\ Len(bs[j].messages) <= PDF_BATCH_SIZE
            /\ Len(pendingMessages) < PDF_BATCH_SIZE
            /\ \A j \in 1..(Len(bs) - 1) : Len(bs[j].messages) = PDF_BATCH_SIZE
            /\ pc \in {"search", "loop", "iter"} =>
                    /\ \A j \in 1..Len(bs) : Len(bs[j].messages) = PDF_BATCH_SIZE
                    /\ sent \o pendingMessages = messages
            /\ messages = AcceptedInScanOrder
            /\ \A j, k \in 1..Len(messages) : j # k => messages[j] # messages[k]
            /\ (sent = messages) \/ (sent \o pendingMessages = messages)
            /\ (pc = "logout" \/ StreamCompleted) => sent = messages
            /\ \A j \in 1..Len(events) :
                    events[j].type \notin {"pdf_batch"} => events[j].messages = <<>>

\* C19's case: 24 accepted messages were delivered as batches of 10, 10 and
\* 4, the last one by the final flush, and the scan completed.
C19_Witness ==
    /\ StreamCompleted /\ pc = "done"
    /\ Len(EventsOfType("pdf_batch")) = 3
    /\ Len(EventsOfType("pdf_batch")[3].messages) = 4
    /\ events[Len(events) - 1].type = "pdf_batch"
    /\ Len(messages) = 24

\* The positions in calls of the collaborator calls that failed.
FailedCalls == {j \in 1..Len(calls) : ~calls[j].ok}

\* The message of the failure of a collaborator call.
FailureText(name) ==
    CASE name = "connect" -> "connect failed"
      [] name = "status" -> "status failed"
      [] name = "mailboxOpen" -> "mailboxOpen failed"
      [] name = "search" -> "search failed"
      [] name = "fetch" -> "fetch failed"
      [] OTHER -> "logout failed"

SearchCalls == CallsNamed(calls, "search")

\* The scan's search was made with a date bound and returned.
DateSearched ==
    /\ op \in {"stream", "search"}
    /\ SearchCalls # <<>> /\ SearchCalls[1].ok /\ SearchCalls[1].arg.kind = "since"

\* C21: a requested daysBack >= 3650 gives the date bound of 3650 days in
\* both scans (the candidates are the messages at most 3650 days old), and the
\* request is not rejected.
C21_DaysBackClamped ==
    (op \in {"stream", "search"} /\ req.daysBack >= 3650) =>
        /\ \A j \in 1..Len(SearchCalls) :
                SearchCalls[j].arg.kind = "since" => SearchCalls[j].arg.value = 3650
        /\ DateSearched => SeqSet(allUids) = {u \in 1..box.size : Age(u) <= 3650}
        /\ req.valid => \A j \in 1..Len(responses) : responses[j].status # 400
        /\ (req.valid /\ pc # "start") => calls # <<>>

\* C21's case: daysBack = 100000, and a message older than 3650 days is not
\* among the candidates of the search.
C21_Witness ==
    /\ DateSearched /\ req.daysBack = 100000 /\ ScanSucceeded
    /\ \E u \in 1..box.size : Age(u) > 3650 /\ u \notin SeqSet(allUids)
    /\ \E u \in 1..box.size : Age(u) > 365 /\ u \in SeqSet(allUids)

\* C22 as stated: whenever a sinceUid is provided (0 included) the search
\* predicate of the streaming scan is exactly UID > sinceUid, without a date
\* bound; whenever none is provided it is the date bound.
C22_SinceUidProvided ==
    op = "stream" =>
        \A j \in 1..Len(SearchCalls) :
            IF req.sinceUid # Null
            THEN SearchCalls[j].arg = [kind |-> "uid", value |-> req.sinceUid + 1]
            ELSE SearchCalls[j].arg.kind = "since"

\* C22 amended: with a non-zero sinceUid the search predicate is exactly
\* UID > sinceUid and the candidates, the counts and the result messages do not
\* depend on daysBack or on any message's date; with sinceUid absent or 0 the
\* predicate is the date bound alone. Exactly one of the two is in the criteria.
C22_SinceUidNonZero ==
    op = "stream" =>
        /\ Len(SearchCalls) <= 1
        /\ \A j \in 1..Len(SearchCalls) :
                LET c == SearchCalls[j]
                    newer == {u \in 1..box.size : u > req.sinceUid}
                IN  IF req.sinceUid # Null /\ req.sinceUid # 0
                    THEN /\ c.arg = [kind |-> "uid", value |-> req.sinceUid + 1]
                         /\ c.ok => SeqSet(allUids) = newer
                         /\ ScanSucceeded =>
                                /\ Last(events).scanned = Cardinality(newer)
                                /\ SeqSet(messages) = {u \in newer : HasPdfStructure(u)}
                    ELSE /\ c.arg.kind = "since"
                         /\ DOMAIN c.arg = {"kind", "value"}
                         /\ c.ok => SeqSet(allUids) =
                                        {u \in 1..box.size : Age(u) <= c.arg.value}

\* C22's case: an incremental scan whose daysBack of -5 would select nothing
\* scanned every message above sinceUid, messages older than 365 days included.
C22_Witness ==
    /\ op = "stream" /\ ScanSucceeded
    /\ req.sinceUid = DaysSinceUid /\ req.daysBack = -5
    /\ Last(events).scanned = box.size - DaysSinceUid
    /\ \E u \in SeqSet(scannedUids) : Age(u) > DefaultDaysBack

\* C24 as stated: for every requested daysBack (0, negative values and values
\* below 3650 included) the look-back of the date bound is
\* min(requestedDaysBack, 3650), in the streaming and in the non-streaming scan.
C24_EffectiveIsMin ==
    op \in {"stream", "search"} =>
        \A j \in 1..Len(SearchCalls) :
            SearchCalls[j].arg.kind = "since" =>
                SearchCalls[j].arg.value = Min(req.daysBack, 3650)

\* C23 as stated: once the caller of a streaming scan has disconnected, no
\* further chunk is fetched and no further message is classified.
C23_AbandonedOnDisconnect ==
    [][(op = "stream" /\ ~connected) =>
            /\ scannedUids' = scannedUids
            /\ Len(CallsNamed(calls', "fetch")) = Len(CallsNamed(calls, "fetch"))]_vars

\* The fetch calls made so far, and the chunks they asked for.
FetchCalls == CallsNamed(calls, "fetch")

RECURSIVE Concat(_)
\* The concatenation of the arguments of a sequence of calls.
Concat(cs) == IF cs = <<>> THEN <<>> ELSE Head(cs).arg \o Concat(Tail(cs))

\* The candidates by date or by sinceUid, from the mailbox and the request.
ScanCandidates ==
    IF ~box.searchArray THEN {}
    ELSE IF op = "stream" /\ Truthy(req.sinceUid)
    THEN {u \in 1..box.size : u > req.sinceUid}
    ELSE {u \in 1..box.size : Age(u) <= EffectiveDaysBack(req.daysBack)}

\* C25: in both scans the search is executed once; the candidates are sorted
\* in descending order and fetched in consecutive chunks of 100 (the last one
\* may be smaller): the chunks fetched so far are the leading part of the
\* sorted candidates, all of them once the loop has ended, every UID of a
\* chunk is greater than every UID of the next one, no chunk is empty, and no
\* fetch is issued when there is no candidate.
C25_DescendingChunks ==
    op \in {"stream", "search"} =>
        /\ Len(SearchCalls) <= 1
        /\ pc \in {"loop", "iter", "logout"} => (Len(SearchCalls) = 1 /\ SearchCalls[1].ok)
        /\ FetchCalls # <<>> => (SearchCalls # <<>> /\ SearchCalls[1].ok)
        /\ (SearchCalls # <<>> /\ SearchCalls[1].ok) =>
            /\ SeqSet(allUids) = ScanCandidates
            /\ Len(allUids) = Cardinality(ScanCandidates)
            /\ \A j \in 1..(Len(allUids) - 1) : allUids[j] > allUids[j + 1]
            /\ Concat(FetchCalls) = SubSeq(allUids, 1, Len(Concat(FetchCalls)))
            /\ \A k \in 1..Len(FetchCalls) :
                    /\ Len(FetchCalls[k].arg) >= 1
                    /\ Len(FetchCalls[k].arg) <= 100
                    /\ k < Len(FetchCalls) => Len(FetchCalls[k].arg) = 100
                    /\ k < Len(FetchCalls) => FetchCalls[k].ok
                    /\ \A a \in SeqSet(FetchCalls[k].arg) :
                            \A b \in UNION {SeqSet(FetchCalls[m].arg) :
                                                m \in (k + 1)..Len(FetchCalls)} : a > b
            /\ ScanSucceeded => Concat(FetchCalls) = allUids
            /\ ScanCandidates = {} => FetchCalls = <<>>

\* C25's case: 120 candidates were fetched as the chunk 120..21 and the
\* chunk 20..1.
C25_Witness ==
    /\ op \in {"stream", "search"} /\ ScanSucceeded
    /\ Len(FetchCalls) = 2
    /\ Len(FetchCalls[1].arg) = 100
    /\ FetchCalls[2].arg[1] = 20
    /\ Last(FetchCalls[2].arg) = 1
    /\ box.order = "asc"

\* C26: Complete's lastUid is the UID of the last message scanned (not
\* skipped) in this invocation, and the request's resumeAfterUid (null when
\* there is none) when no message was scanned; a Progress event's lastUid is
\* the UID of the message whose scanning made the event due.
C26_LastUid ==
    op = "stream" =>
        /\ StreamCompleted =>
                Last(events).lastUid =
                    (IF scannedUids = <<>> THEN req.resumeAfterUid ELSE Last(scannedUids))
        /\ \A j \in 1..Len(events) :
                events[j].type = "progress" =>
                    /\ events[j].scanned - req.previousScanned \in 1..Len(scannedUids)
                    /\ events[j].lastUid = scannedUids[events[j].scanned - req.previousScanned]

\* C26's case: a resumed scan whose fetches yield their messages in ascending
\* order completed; the last message scanned is not the lowest UID.
C26_Witness ==
    /\ StreamCompleted /\ pc = "done"
    /\ req.resumeAfterUid = ResumeUid
    /\ box.order = "asc" /\ box.size = MaxUid
    /\ scannedUids # <<>>
    /\ Last(events).lastUid = Last(scannedUids)
    /\ Last(events).lastUid > 1
    /\ EventsOfType("progress") # <<>>

\* C27: on every structure the /attachment fallback walks, findPdfParts
\* yields the same part paths, in the same order, as the partIds of the
\* descriptors extractPdfAttachments returns.
C27_WalkersAgree ==
    (Walked /\ box.tree # NoStructure) =>
        pdfParts = [j \in 1..Len(responses[1].content) |-> responses[1].content[j].partId]

\* C27's case: a nested structure with PDF parts at two depths was walked by
\* both walkers.
C27_Witness ==
    /\ Walked
    /\ Len(pdfParts) >= 3
    /\ \E j \in 1..Len(pdfParts) : Len(pdfParts[j]) = 2
    /\ \E j \in 1..Len(pdfParts) : Len(pdfParts[j]) = 1

RECURSIVE PathsOf(_)
\* The positional paths of the nodes of tree; <<>> is the root.
PathsOf(tree) ==
    {<<>>} \cup UNION {{<<j>> \o q : q \in PathsOf(tree.childNodes[j])} :
                        j \in 1..Len(tree.childNodes)}

\* p is visited before q in a depth-first pre-order walk: p is an ancestor of
\* q, or p branches off to an earlier child where the two paths part.
VisitedBefore(p, q) ==
    \/ Len(p) < Len(q) /\ SubSeq(q, 1, Len(p)) = p
    \/ \E k \in 1..Min(Len(p), Len(q)) :
            /\ SubSeq(p, 1, k - 1) = SubSeq(q, 1, k - 1)
            /\ p[k] < q[k]

RECURSIVE PreOrder(_)
\* The paths of S in the order a depth-first pre-order walk visits them.
PreOrder(S) ==
    IF S = {} THEN <<>>
    ELSE LET first == CHOOSE p \in S : \A q \in S \ {p} : VisitedBefore(p, q)
         IN  <<first>> \o PreOrder(S \ {first})

\* The node's type/subtype is application/pdf in any spelling, or its file
\* name (the disposition filename, else the name parameter, else empty) ends
\* with .pdf in any spelling.
PdfByTypeOrName(node) ==
    LET name == IF node.filename # <<>> THEN node.filename
                ELSE IF node.name # <<>> THEN node.name ELSE <<>>
    IN  \/ LowerWord(node.type) = "application" /\ LowerWord(node.subtype) = "pdf"
        \/ /\ Len(name) >= 4
           /\ ToLowerCase(SubSeq(name, Len(name) - 3, Len(name))) = <<".", "p", "d", "f">>

\* C28: extractPdfAttachments reports exactly the nodes whose lower-cased
\* type/subtype is application/pdf or whose resolved file name ends with .pdf
\* in any spelling, one descriptor a node, in depth-first pre-order; a missing
\* structure gives the empty list.
C28_ReportedIffPdf ==
    Walked =>
        LET ds == responses[1].content
        IN  IF box.tree = NoStructure THEN ds = <<>>
            ELSE LET ps == PreOrder({p \in PathsOf(box.tree) :
                                        PdfByTypeOrName(NodeAt(box.tree, p))})
                 IN  /\ Len(ds) = Len(ps)
                     /\ \A j \in 1..Len(ds) :
                            /\ ds[j].partId = (IF ps[j] = <<>> THEN <<1>> ELSE ps[j])
                            /\ ds[j].mimeType = <<LowerWord(NodeAt(box.tree, ps[j]).type),
                                                  LowerWord(NodeAt(box.tree, ps[j]).subtype)>>

\* C28's case: the walked structure has a part that is a PDF by its
\* upper-case name parameter only, behind a part whose disposition filename
\* hides a .pdf name parameter; only the former is reported.
C28_Witness ==
    /\ Walked /\ box.tree # NoStructure
    /\ box.tree.name = <<>>
    /\ box.tree.childNodes = <<ShadowedLeaf, NamedPdfLeaf>>
    /\ Len(responses[1].content) = 1
    /\ responses[1].content[1].partId = <<2>>


\* C29: when the search of a streaming scan yields no candidates, by an empty
\* list or by a reply that is no list, and nothing fails, the events are
\* exactly Start and then Complete, no Progress and no PdfBatch, Complete
\* carries the request's previousScanned and previousWithPdf as its totals,
\* no fetch was issued and the session was released.
C29_NoCandidates ==
    (/\ op = "stream" /\ pc = "done"
     /\ SearchCalls # <<>> /\ FailedCalls = {}
     /\ ScanCandidates = {}) =>
        /\ [j \in 1..Len(events) |-> events[j].type] = <<"start", "complete">>
        /\ events[2].scanned = req.previousScanned
        /\ events[2].withPdf = req.previousWithPdf
        /\ events[2].messages = <<>>
        /\ FetchCalls = <<>>
        /\ client # Null /\ sessions[client] >= 1
        /\ resEnded

\* C29's case: a resumed scan with previous totals over a mailbox that has
\* messages, whose search gave no list, has ended.
C29_Witness ==
    /\ op = "stream" /\ pc = "done"
    /\ ~box.searchArray /\ box.size = MaxUid
    /\ req.previousScanned = PrevScanned /\ req.previousWithPdf = PrevWithPdf
    /\ SearchCalls # <<>> /\ FailedCalls = {}
    /\ Len(events) = 2 /\ Last(events).type = "complete"
    /\ Last(events).scanned = PrevScanned

\* The sessions on which logout has not been invoked.
OpenSessions == {j \in 1..Len(sessions) : sessions[j] = 0}

\* C30: every /attachment attempt connects once and, when the connect
\* succeeds, works on a session of its own; at most one session is open at
\* any time, the current attempt's; the session of a failed attempt has been
\* released when the backoff delay starts and when the next attempt connects.
C30_OneSessionPerAttempt ==
    op = "attachment" =>
        /\ Len(sessions) = Len(SelectSeq(CallsNamed(calls, "connect"), LAMBDA c : c.ok))
        /\ Len(CallsNamed(calls, "connect")) \in {attempt - 1, attempt}
        /\ Len(CallsNamed(calls, "connect")) <= MAX_RETRIES
        /\ Cardinality(OpenSessions) <= 1
        /\ OpenSessions # {} => (client = Len(sessions) /\ OpenSessions = {client})
        /\ pc \in {"start", "backoff", "done"} => OpenSessions = {}

\* C30's case: the second attempt has connected after the first one failed
\* on its session and the first backoff delay has passed.
C30_Witness ==
    /\ op = "attachment" /\ attempt = 2 /\ pc = "open"
    /\ sessions = <<1, 0>> /\ client = 2
    /\ Len(waits) = 1

\* The UIDs of a sequence.
UidSet(us) == {us[j] : j \in 1..Len(us)}

\* The second run of a scan that was resumed from a progress event of the
\* first has completed.
ResumedCompleted == StreamCompleted /\ pc = "done" /\ prior.op = "progress"

\* C31: when every fetch yields its chunk in descending order and a scan from
\* the start is stopped right after a Progress event and resumed with the
\* event's lastUid, scanned and withPdf, every candidate UID is scanned in
\* exactly one of the two runs and the second run's Complete reports the
\* totals of an uninterrupted scan: the number of candidates and the number
\* of candidates with a PDF, which is what a completed scan from the start
\* reports.
C31_ResumeLossless ==
    LET withPdf == {u \in ScanCandidates : HasPdfStructure(u)}
    IN  /\ (StreamCompleted /\ prior = NoPrior /\ SearchCalls # <<>>) =>
                /\ Last(events).scanned = Cardinality(ScanCandidates)
                /\ Last(events).withPdf = Cardinality(withPdf)
        /\ (ResumedCompleted /\ box.order = "desc") =>
                /\ UidSet(prior.scannedUids) \cup UidSet(scannedUids) = ScanCandidates
                /\ UidSet(prior.scannedUids) \cap UidSet(scannedUids) = {}
                /\ Cardinality(UidSet(prior.scannedUids)) = Len(prior.scannedUids)
                /\ Cardinality(UidSet(scannedUids)) = Len(scannedUids)
                /\ Last(events).scanned = Cardinality(ScanCandidates)
                /\ Last(events).withPdf = Cardinality(withPdf)

\* C31's case: a scan in descending order was stopped at its first Progress
\* event, resumed, and the second run completed having scanned the rest.
C31_Witness ==
    /\ ResumedCompleted /\ box.order = "desc"
    /\ prior.totalEmailsScanned = PROGRESS_INTERVAL
    /\ Len(scannedUids) = MaxUid - PROGRESS_INTERVAL
    /\ Last(events).scanned = MaxUid

\* The candidates the invocation has to scan: those the resume point does not
\* skip.
ToScan == {u \in ScanCandidates : ~SkipToResume(req.resumeAfterUid, u)}

\* The UIDs scanned in this invocation when the progress event e was written.
ScannedAt(e) == UidSet(SubSeq(scannedUids, 1, e.scanned - req.previousScanned))

\* C32 as stated: whatever the order in which a fetch yields the messages of
\* its chunk, the lastUid of a Progress event is at most every UID scanned
\* so far in the invocation and above every candidate still to be scanned.
C32_ProgressIsBoundary ==
    op = "stream" =>
        \A j \in 1..Len(events) :
            events[j].type = "progress" =>
                /\ \A u \in ScannedAt(events[j]) : events[j].lastUid <= u
                /\ \A u \in ToScan \ ScannedAt(events[j]) : events[j].lastUid > u

\* C33 as stated: when a Progress event is written, every PDF-bearing message
\* scanned so far in the invocation and accepted under the cap has been
\* delivered in a PdfBatch event written before it.
C33_DeliveredBeforeProgress ==
    op = "stream" =>
        \A j \in 1..Len(events) :
            events[j].type = "progress" =>
                Len(BatchedMessages(SubSeq(events, 1, j))) =
                    Min(req.maxResults, events[j].withPdf - req.previousWithPdf)

\* C34 as stated: in every Progress event the cumulative scanned count is at
\* most the event's total candidate count, for scans from the start, resumed
\* scans and incremental scans, whatever previousScanned >= 0 is.
C34_ScannedWithinTotal ==
    op = "stream" =>
        \A j \in 1..Len(events) :
            events[j].type = "progress" => events[j].scanned <= events[j].total

\* The download of the part at path is served as a non-empty payload that
\* begins with %PDF.
ServesPdf(path) ==
    Served(path) = {[content |-> "stream", bytes |-> PdfPayload]}

\* C35 as stated: when the download of the requested part is rejected and the
\* download of at least one located PDF candidate would give a non-empty
\* payload beginning with %PDF, and no other collaborator call fails, the
\* retrieval answers with that PDF content: a candidate that downloads but
\* is empty or no PDF does not keep the remaining candidates from being tried.
C35_ValidCandidateRetrieved ==
    (/\ op = "attachment" /\ pc = "done"
     /\ ~AttachmentParametersMissing(req)
     /\ box.served # {}
     /\ Served(req.partId) = {DownloadFails}
     /\ \E j \in 1..Len(findPdfParts(box.tree)) : ServesPdf(findPdfParts(box.tree)[j])
     /\ \A j \in FailedCalls : calls[j].name = "download") =>
        /\ responses[1].status = 200
        /\ responses[1].content = PdfPayload

====
